---- MODULE Spec2Model ----
(***************************************************************************)
(* Control-flow models of the KIMERA SWM administration scripts:           *)
(*   - migrate_sqlite_to_postgres.py : migrate_data, verify_migration and  *)
(*     the __main__ block                                                  *)
(*   - full_main.py : full_lifespan and the FastAPI endpoint handlers      *)
(*   - the test harness scripts (comprehensive_system_test,                *)
(*     test_statsmodels_integration, gpu_stress_test_real_performance,     *)
(*     populate_test_data)                                                 *)
(* Calls into the backend package, the databases and the HTTP API are the  *)
(* environment: each either returns or raises, chosen nondeterministically.*)
(* All of these files except full_main.py have logger calls whose f-string *)
(* is cut off before its closing brace and do not compile as shipped; the  *)
(* models follow the control flow of the functions as written, a logging   *)
(* call changing no state.                                                 *)
(***************************************************************************)
EXTENDS Integers, Sequences, FiniteSets, TLC

(***************************************************************************)
(* Bounds                                                                  *)
(***************************************************************************)
\* records per SQLite table
MaxRows == 2
\* only the first MaxPopulated listed tables may hold records in SQLite
MaxPopulated == 3
\* number of calls that raise inside a try block's body during one run of the
\* migration script (a handler's own call that raises ends the run and is not
\* counted against the bound)
MaxFaults == 1
\* number of HTTP requests of populate_test_data answered unlike the rest
MaxDeviations == 1
\* largest "scars_created" value in a contradiction response
MaxScars == 1
\* characters typed at the "Select simulation mode" prompt
MaxInputLen == 3
\* GPU utilization samples the model records
MaxSamples == 4
\* largest entropy value (in model units) a geoid can have
MaxEntropy == 1
\* SCARs per vault id in the analysed database
MaxVaultCount == 6
\* largest embedding length (EMBEDDING_DIM and the lists encode_text returns)
MaxDim == 2

VARIABLES
    \* ---- migrate_sqlite_to_postgres.py ----
    response,        \* answer typed at the "Continue with migration?" prompt
    postgres_url,    \* os.getenv("DATABASE_URL", ...), a sequence of URL parts
    sqlite_rows,     \* SQLite content: table name -> number of records
    target,          \* rows committed in PostgreSQL
    pending,         \* rows added to postgres_session, not yet committed
    mig_pc,          \* position in __main__ / migrate_data
    ti,              \* index into tables of the table being migrated
    records,         \* result of sqlite_session.query(table_class).all()
    ri,              \* number of records of the current table already added
    total_migrated,
    table_status,    \* table name -> what the loop body did for it
    commits,         \* table name -> commits issued while migrating it
    committed_by,    \* row -> name of the table whose commit stored it
    error_log,       \* table names of the logged "Error migrating ..." lines
    faults,          \* number of calls that raised so far
    resources,       \* engines / connections / sessions created so far
    all_match,       \* verify_migration's all_match
    mig_result,      \* return value of migrate_data
    main_log,        \* the lines logged by the __main__ block, in order
    created_indexes, \* indexes create_indexes created on the target database
    index_warnings,  \* indexes whose creation failed and was logged as a warning
    mig_bare_info_ok, \* whether the system logger accepts info() without a message
    \* ---- full_main.py ----
    kimera_system,   \* the global dict: key -> value
    app_state,       \* app.state: attribute -> value ("None" for None)
    life_pc,         \* position in full_lifespan
    attempted,       \* initialization steps entered
    initialized,     \* initialization steps that completed without raising
    warnings,        \* steps whose "... failed" warning was logged
    critical_log,    \* the outer handler logged a critical error
    background_jobs, \* state of the background jobs and their encoder
    collecting,      \* metrics.start_background_collection() took effect
    stop_calls,      \* calls of stop_background_jobs() made on shutdown
    shutdown_log,    \* what the cleanup block logged
    \* ---- test harness scripts ----
    script,               \* which harness script is run
    cst_pc,               \* comprehensive_system_test.main: index of the next call
    cst_completed,        \* calls that returned, in order
    cst_test_results,     \* keys stored in test_system.test_results
    cst_report_file,      \* comprehensive_test_results.json was written
    cst_exit_code,        \* << value returned by main >>, << >> while running
    statsmodels_installed,\* "import statsmodels" succeeds
    sm_pc,                \* generate_integration_report: position
    sm_calls,             \* test functions called, in order
    sm_outcomes,          \* what each of those calls did: truthy, falsy, raise
    sm_test_results,      \* report['test_results']: test name -> status
    sm_availability,      \* report['statsmodels_integration']['availability']
    sm_recommendations,   \* report['recommendations']
    sm_report_saved,      \* the report file was written
    gpu_pc,               \* gpu stress test main: position
    gpu_calls,            \* calls of the try block that returned, in order
    gpu_results,          \* keys of the results dict
    gpu_file_written,     \* gpu_stress_test_results.json was opened for writing
    gpu_outcome,          \* how main ended
    \* ---- populate_test_data.py ----
    api_mode,        \* how the API answers as a rule: up, rejecting, down
    deviations,      \* requests answered unlike the rule so far
    pop_pc,          \* position in main
    probe_outcome,   \* what the reachability probe met ("none" before it)
    pop_i,           \* loop index of the running phase
    semantic_geoids, \* created_geoids of create_test_geoids
    echoform_geoids, \* created_geoids of create_echoform_geoids
    geoid_outcomes,  \* what each POST /geoids met, in request order
    geoid_ids,       \* main's geoid_ids
    total_scars,     \* process_contradictions' total_scars
    posts,           \* POST requests sent, in order: the function sending each
    gets,            \* GET requests sent after the probe, in order
    phases,          \* functions main has called, in order
    \* ---- start_kimera_trading_simulation.py ----
    tr_bare_info_ok,  \* whether the system logger accepts info() without a message
    tr_pc,            \* position in main
    tr_i,             \* loop index of the running function
    missing_packages, \* check_dependencies' missing_packages
    pip_installs,     \* packages handed to "pip install" subprocesses, in order
    connections,      \* outcome of each connection test, in order
    raw_choice,       \* the line typed at the prompt
    launched,         \* input given to each simulation subprocess, in order
    \* ---- gpu_stress_test_real_performance.py : monitor_gpu_utilization ----
    mon_pc,           \* the call: start, returned, raised
    stop_kind,        \* which stop callable was returned
    monitoring,       \* the closure variable "monitoring"
    utilizations,     \* the shared list
    thread_state,     \* the monitor thread: none, testing, sampling, left
    stop_state,       \* the stop callable: not_invoked, returned, raised
    \* ---- comprehensive_system_test.py : test_thermodynamic_compliance ----
    th_pc,            \* position: loop, statistics, done, raised
    th_results,       \* the list "results"
    th_stored,        \* whether self.test_results holds the list
    corrected_violations,
    total_violations,
    compliance_rate,  \* << >> when not computed, else << percent >>
    th_verdict,       \* the closing log line
    \* ---- analyze_database_content.py : generate_insights ----
    vault_dist,       \* patterns["vault_distribution"]: vault id -> SCAR count
    ins_pc,           \* position: start, done, raised
    balance_ratio,    \* << >> when not computed, else << [num, den] >>
    balance_report,   \* the vault balance line logged
    \* ---- test_migration_simple.py : test_basic_functionality ----
    os_environ,       \* os.environ's LIGHTWEIGHT_EMBEDDING: "unset", "0" or "1"
    emb_pc,           \* position in the function
    embedding_dim,    \* EMBEDDING_DIM once imported, 0 before
    emb_i,            \* test_texts handled so far
    lightweight_set,  \* whether line 57 has run
    lightweight_len,  \* << >>, else << len(lightweight_embedding) >>
    emb_error,        \* what raised into the except branch ("none" if nothing)
    emb_result        \* the return value: "none", "True", "False"

migVars == << response, postgres_url, sqlite_rows, target, pending, mig_pc, ti,
              records, ri, total_migrated, table_status, commits, committed_by,
              error_log, faults, resources, all_match, mig_result, main_log,
              created_indexes, index_warnings, mig_bare_info_ok >>

lifeVars == << kimera_system, app_state, life_pc, attempted, initialized,
               warnings, critical_log, background_jobs, collecting, stop_calls,
               shutdown_log >>

harVars == << script, cst_pc, cst_completed, cst_test_results, cst_report_file,
              cst_exit_code, statsmodels_installed, sm_pc, sm_calls,
              sm_outcomes, sm_test_results, sm_availability, sm_recommendations,
              sm_report_saved, gpu_pc, gpu_calls, gpu_results, gpu_file_written,
              gpu_outcome >>

popVars == << api_mode, deviations, pop_pc, probe_outcome, pop_i, semantic_geoids, geoid_outcomes,
              echoform_geoids, geoid_ids, total_scars, posts, gets, phases >>

trVars == << tr_bare_info_ok, tr_pc, tr_i, missing_packages, pip_installs,
             connections, raw_choice, launched >>

monVars == << mon_pc, stop_kind, monitoring, utilizations, thread_state, stop_state >>

thVars == << th_pc, th_results, th_stored, corrected_violations, total_violations,
             compliance_rate, th_verdict >>

insVars == << vault_dist, ins_pc, balance_ratio, balance_report >>

embVars == << os_environ, emb_pc, embedding_dim, emb_i, lightweight_set,
              lightweight_len, emb_error, emb_result >>

vars == << migVars, lifeVars, harVars, popVars, trVars, monVars, thVars, insVars,
           embVars >>

\* what the steps of one script leave alone: the state of the others
notMig == << lifeVars, harVars, popVars, trVars, monVars, thVars, insVars, embVars >>

notLife == << migVars, harVars, popVars, trVars, monVars, thVars, insVars, embVars >>

notHar == << migVars, lifeVars, popVars, trVars, monVars, thVars, insVars, embVars >>

notPop == << migVars, lifeVars, harVars, trVars, monVars, thVars, insVars, embVars >>

notTr == << migVars, lifeVars, harVars, popVars, monVars, thVars, insVars, embVars >>

notMon == << migVars, lifeVars, harVars, popVars, trVars, thVars, insVars, embVars >>

notTh == << migVars, lifeVars, harVars, popVars, trVars, monVars, insVars, embVars >>

notIns == << migVars, lifeVars, harVars, popVars, trVars, monVars, thVars, embVars >>

notEmb == << migVars, lifeVars, harVars, popVars, trVars, monVars, thVars, insVars >>

(***************************************************************************)
(* migrate_sqlite_to_postgres.py                                           *)
(***************************************************************************)

\* the table list with its first two entries exchanged
tablesScarsFirst ==
    << "SCARs", "Geoids", "Multimodal Groundings", "Causal Relationships",
       "Self Models", "Introspection Logs", "Compositional Semantics",
       "Conceptual Abstractions", "Value Systems", "Genuine Opinions",
       "Ethical Reasoning", "Enhanced SCARs", "Enhanced Geoids",
       "Understanding Tests", "Consciousness Indicators" >>

\* Tables to migrate in order (respecting foreign keys)
tables == << "Geoids", "SCARs", "Multimodal Groundings", "Causal Relationships",
             "Self Models", "Introspection Logs", "Compositional Semantics",
             "Conceptual Abstractions", "Value Systems", "Genuine Opinions",
             "Ethical Reasoning", "Enhanced SCARs", "Enhanced Geoids",
             "Understanding Tests", "Consciousness Indicators" >>

TableNames == { tables[k] : k \in 1..Len(tables) }

\* verify_migration checks only these
tables_to_check == << "Geoids", "SCARs", "Multimodal Groundings" >>

\* the for statement over tables: the table visited after position k
NextTableIndex(k) == k + 1

\* DATABASE_URL values, split into parts; the check is a substring test
DatabaseUrls == { << "postgresql", "://", "kimera", "@localhost:5432/kimera_swm" >>,
                  << "sqlite", ":///./", "kimera_swm.db" >>,
                  << "mysql", "://", "localhost/kimera_swm" >> }

\* a check for "sql" instead: "sql" in postgres_url
ContainsSql(url) == \E k \in 1..Len(url) : url[k] \in { "postgresql", "mysql", "sqlite" }

\* "postgresql" in postgres_url
ContainsPostgresql(url) == \E k \in 1..Len(url) : url[k] = "postgresql"

Responses == { "y", "Y", "n" }

\* response.lower()
Lower(s) == IF s = "Y" THEN "y" ELSE s

\* sqlite_session.query(table_class).all(): the records of one table
QueryAll(t) == [ k \in 1..sqlite_rows[t] |-> [ table |-> t, id |-> k ] ]

\* new_record = table_class(); copy every column of record onto it
CopyRecord(table_class, record) == [ table |-> table_class, id |-> record.id ]

\* session.add(new_record)
SessionAdd(session, new_record) == session \cup { new_record }

\* a handler that forgets the rollback: the pending rows stay in the session
RollbackOmitted(session) == session

\* postgres_session.rollback(): the pending rows are expunged
Rollback(session) == {}

\* sqlite_session.query(c).count() / postgres_session.query(c).count()
TargetCount(t) == Cardinality({ row \in target : row.table = t })

Populated == { tables[k] : k \in 1..MaxPopulated }

\* the SQLite contents considered: table name -> number of records
SourceContents ==
    { [ t \in TableNames |-> IF t \in Populated THEN g[t] ELSE 0 ] :
        g \in [ Populated -> 0..MaxRows ] }

\* the state before __main__ asks its question
MigStart ==
    /\ target = {}
    /\ pending = {}
    /\ mig_pc = "prompt"
    /\ ti = 0
    /\ records = << >>
    /\ ri = 0
    /\ total_migrated = 0
    /\ table_status = [ t \in TableNames |-> "none" ]
    /\ commits = [ t \in TableNames |-> 0 ]
    /\ committed_by = << >>
    /\ error_log = {}
    /\ faults = 0
    /\ resources = {}
    /\ all_match = TRUE
    /\ mig_result = "none"
    /\ main_log = << >>
    /\ created_indexes = {}
    /\ index_warnings = {}

MigInit ==
    /\ mig_bare_info_ok \in BOOLEAN
    /\ response \in Responses
    /\ postgres_url \in DatabaseUrls
    /\ sqlite_rows \in SourceContents
    /\ MigStart

\* the migration script is not run
MigIdle ==
    /\ mig_bare_info_ok = TRUE
    /\ response = "n"
    /\ postgres_url = << "sqlite", ":///./", "kimera_swm.db" >>
    /\ sqlite_rows = [ t \in TableNames |-> 0 ]
    /\ MigStart

CanRaise == faults < MaxFaults

\* the statements of create_indexes, in list order (by index name)
indexes == << "idx_geoids_semantic_vector", "idx_scars_scar_vector",
              "idx_geoids_symbolic_gin", "idx_geoids_metadata_gin",
              "idx_scars_timestamp", "idx_scars_vault_timestamp",
              "idx_multimodal_concept", "idx_causal_cause", "idx_causal_effect" >>

IndexNames == { indexes[k] : k \in 1..Len(indexes) }

\* the two notes __main__ logs before it asks
MainNotes == << "Note: Make sure PostgreSQL is running and accessible",
                "docker-compose up -d postgres" >>

\* what __main__ logs after a migration that returned True
SuccessLines == << "Migration successful!", "Next steps:",
                   "1. Update your .env file to use PostgreSQL URL",
                   "2. Restart the Kimera application",
                   "3. Verify everything works correctly" >>

\* __main__: the two notes, then logger.info() without a message (line 242;
\* the logger comes from backend.utils.kimera_logger, which is not part of
\* these sources, so the call either returns or raises TypeError); then
\* response = input(...); if response.lower() == 'y': migrate_data()
MainPrompt ==
    /\ mig_pc = "prompt"
    /\ UNCHANGED notMig
    /\ IF ~ mig_bare_info_ok
          THEN /\ mig_pc' = "type_error"
               /\ main_log' = main_log \o MainNotes
          ELSE IF Lower(response) = "y"
                  THEN /\ mig_pc' = "check_url"
                       /\ main_log' = main_log \o MainNotes
                  ELSE /\ mig_pc' = "exit"
                       /\ main_log' = main_log \o MainNotes \o << "Migration cancelled" >>
    /\ UNCHANGED << created_indexes, index_warnings, mig_bare_info_ok, response,
                    postgres_url, sqlite_rows, target, pending, ti,
                    records, ri, total_migrated, table_status, commits,
                    committed_by, error_log, faults, resources, all_match,
                    mig_result >>

\* if "postgresql" not in postgres_url: log, return False
CheckUrl ==
    /\ mig_pc = "check_url"
    /\ UNCHANGED notMig
    /\ IF ~ ContainsPostgresql(postgres_url)
          THEN /\ mig_result' = "False"
               /\ mig_pc' = "returned"
          ELSE /\ mig_pc' = "setup"
               /\ UNCHANGED mig_result
    /\ UNCHANGED << created_indexes, index_warnings, mig_bare_info_ok, response,
                    postgres_url, sqlite_rows, target, pending, ti,
                    records, ri, total_migrated, table_status, commits,
                    committed_by, error_log, faults, resources, all_match,
                    main_log >>

\* the outer "except Exception": log "Migration failed", return False
OuterExcept ==
    /\ mig_result' = "False"
    /\ mig_pc' = "returned"
    /\ faults' = faults + 1

\* what exists when a call of lines 50-72 raises: nothing (the first
\* create_engine), the SQLite engine (the second create_engine), both engines
\* (a connection test, create_all, SqliteSession()), or both engines and the
\* SQLite session (PostgresSession())
SetupPartial ==
    { {}, { "sqlite_engine" }, { "sqlite_engine", "postgres_engine" },
      { "sqlite_engine", "postgres_engine", "sqlite_session" } }

\* create engines, test both connections, create the schema, open the sessions
Setup ==
    /\ mig_pc = "setup"
    /\ UNCHANGED notMig
    /\ \/ /\ resources' = { "sqlite_engine", "postgres_engine", "sqlite_session",
                            "postgres_session" }
          /\ ti' = NextTableIndex(0)
          /\ mig_pc' = "query"
          /\ UNCHANGED << mig_result, faults >>
       \/ /\ CanRaise
          /\ \E made \in SetupPartial : resources' = made
          /\ OuterExcept
          /\ UNCHANGED ti
    /\ UNCHANGED << created_indexes, index_warnings, mig_bare_info_ok, response,
                    postgres_url, sqlite_rows, target, pending,
                    records, ri, total_migrated, table_status, commits,
                    committed_by, error_log, all_match, main_log >>

\* except Exception in the loop body, entered with the given rows in the
\* session: log the error, roll back, continue.  The rollback is not guarded:
\* when it raises too, the exception reaches the outer handler, which returns
\* False with the rows still in the session.
TableExcept(session) ==
    /\ error_log' = error_log \cup { tables[ti] }
    /\ records' = << >>
    /\ ri' = 0
    /\ \/ /\ pending' = Rollback(session)
          /\ table_status' = [ table_status EXCEPT ![tables[ti]] = "rolled_back" ]
          /\ faults' = faults + 1
          /\ ti' = NextTableIndex(ti)
          /\ mig_pc' = "query"
          /\ UNCHANGED mig_result
       \/ /\ faults' = faults + 2
          /\ table_status' = [ table_status EXCEPT ![tables[ti]] = "error_logged_no_rollback" ]
          /\ mig_result' = "False"
          /\ mig_pc' = "returned"
          /\ pending' = session
          /\ UNCHANGED ti

\* records = sqlite_session.query(table_class).all(); count == 0 -> continue
Query ==
    /\ mig_pc = "query"
    /\ UNCHANGED notMig
    /\ ti \in 1..Len(tables)
    /\ \/ /\ records' = QueryAll(tables[ti])
          /\ IF Len(records') = 0
                THEN /\ table_status' = [ table_status EXCEPT ![tables[ti]] = "empty" ]
                     /\ ti' = NextTableIndex(ti)
                     /\ mig_pc' = "query"
                ELSE /\ table_status' = [ table_status EXCEPT ![tables[ti]] = "adding" ]
                     /\ mig_pc' = "add"
                     /\ UNCHANGED ti
          /\ ri' = 0
          /\ UNCHANGED << pending, error_log, faults, mig_result >>
       \/ /\ CanRaise
          /\ TableExcept(pending)
    /\ UNCHANGED << created_indexes, index_warnings, mig_bare_info_ok, response,
                    postgres_url, sqlite_rows, target, total_migrated,
                    commits, committed_by, resources, all_match, main_log >>

\* one iteration of "for record in records": copy it and add it to the session
AddRecord ==
    /\ mig_pc = "add"
    /\ UNCHANGED notMig
    /\ ri < Len(records)
    /\ \/ /\ pending' = SessionAdd(pending, CopyRecord(tables[ti], records[ri + 1]))
          /\ ri' = ri + 1
          /\ UNCHANGED << ti, mig_pc, records, table_status, error_log, faults,
                          mig_result >>
       \/ \* tqdm(...), table_class() or the copying of a column raises
          /\ CanRaise
          /\ TableExcept(pending)
       \/ \* pbar.update(1) raises, after the add
          /\ CanRaise
          /\ TableExcept(SessionAdd(pending, CopyRecord(tables[ti], records[ri + 1])))
    /\ UNCHANGED << created_indexes, index_warnings, mig_bare_info_ok, response,
                    postgres_url, sqlite_rows, target, total_migrated,
                    commits, committed_by, resources, all_match, main_log >>

\* leave the "with tqdm" block; postgres_session.commit(); total_migrated += count
Commit ==
    /\ mig_pc = "add"
    /\ UNCHANGED notMig
    /\ ri = Len(records)
    /\ \/ /\ commits' = [ commits EXCEPT ![tables[ti]] = @ + 1 ]
          /\ target' = target \cup pending
          /\ committed_by' = [ row \in DOMAIN committed_by \cup pending |->
                                 IF row \in DOMAIN committed_by
                                    THEN committed_by[row] ELSE tables[ti] ]
          /\ pending' = {}
          /\ total_migrated' = total_migrated + Len(records)
          /\ table_status' = [ table_status EXCEPT ![tables[ti]] = "committed" ]
          /\ ti' = NextTableIndex(ti)
          /\ mig_pc' = "query"
          /\ records' = << >>
          /\ ri' = 0
          /\ UNCHANGED << error_log, faults, mig_result >>
       \/ \* postgres_session.commit() raises
          /\ CanRaise
          /\ commits' = [ commits EXCEPT ![tables[ti]] = @ + 1 ]
          /\ TableExcept(pending)
          /\ UNCHANGED << target, committed_by, total_migrated >>
       \/ \* leaving the "with tqdm" block raises: commit() is not called
          /\ CanRaise
          /\ TableExcept(pending)
          /\ UNCHANGED << commits, target, committed_by, total_migrated >>
    /\ UNCHANGED << created_indexes, index_warnings, mig_bare_info_ok, response,
                    postgres_url, sqlite_rows, resources, all_match, main_log >>

\* after the loop: update the PostgreSQL sequences (per-sequence errors are passed)
UpdateSequences ==
    /\ mig_pc = "query"
    /\ UNCHANGED notMig
    /\ ti \notin 1..Len(tables)
    /\ \/ /\ mig_pc' = "verify"
          /\ UNCHANGED << mig_result, faults >>
       \/ /\ CanRaise
          /\ OuterExcept
    /\ UNCHANGED << created_indexes, index_warnings, mig_bare_info_ok, response,
                    postgres_url, sqlite_rows, target, pending, ti,
                    records, ri, total_migrated, table_status, commits,
                    committed_by, error_log, resources, all_match, main_log >>

\* verify_migration: compare the counts of tables_to_check, log only
VerifyAllMatch ==
    \A k \in 1..Len(tables_to_check) :
        sqlite_rows[tables_to_check[k]] = TargetCount(tables_to_check[k])

\* verify_migration(...); close both sessions; return True
VerifyAndClose ==
    /\ mig_pc = "verify"
    /\ UNCHANGED notMig
    /\ \/ /\ all_match' = VerifyAllMatch
          /\ resources' = resources \ { "sqlite_session", "postgres_session" }
          /\ mig_result' = "True"
          /\ mig_pc' = "returned"
          /\ UNCHANGED faults
       \/ \* a count() of verify_migration raises
          /\ CanRaise
          /\ OuterExcept
          /\ UNCHANGED << all_match, resources >>
       \/ \* sqlite_session.close() raises
          /\ CanRaise
          /\ OuterExcept
          /\ all_match' = VerifyAllMatch
          /\ UNCHANGED resources
       \/ \* postgres_session.close() raises
          /\ CanRaise
          /\ OuterExcept
          /\ all_match' = VerifyAllMatch
          /\ resources' = resources \ { "sqlite_session" }
    /\ UNCHANGED << created_indexes, index_warnings, mig_bare_info_ok, response,
                    postgres_url, sqlite_rows, target, pending, ti,
                    records, ri, total_migrated, table_status, commits,
                    committed_by, error_log, main_log >>

\* __main__, migrate_data() returned True: create_indexes().  create_engine
\* and engine.connect() are outside any try, an exception of theirs leaves
\* __main__; each CREATE INDEX has its own try/except that logs a warning.
CreateIndexes ==
    /\ mig_pc = "returned"
    /\ mig_result = "True"
    /\ UNCHANGED notMig
    /\ \/ \E failed \in SUBSET IndexNames :
             /\ faults + Cardinality(failed) <= MaxFaults
             /\ faults' = faults + Cardinality(failed)
             /\ index_warnings' = failed
             /\ created_indexes' = IndexNames \ failed
             /\ resources' = resources \cup { "index_engine" }
             /\ mig_pc' = "indexed"
       \/ \* leaving "with engine.connect()" raises, after the loop
          \E failed \in SUBSET IndexNames :
             /\ faults + Cardinality(failed) + 1 <= MaxFaults
             /\ faults' = faults + Cardinality(failed) + 1
             /\ index_warnings' = failed
             /\ created_indexes' = IndexNames \ failed
             /\ resources' = resources \cup { "index_engine" }
             /\ mig_pc' = "uncaught"
       \/ \* create_engine raises
          /\ CanRaise
          /\ faults' = faults + 1
          /\ mig_pc' = "uncaught"
          /\ UNCHANGED << resources, created_indexes, index_warnings >>
       \/ \* engine.connect() raises
          /\ CanRaise
          /\ faults' = faults + 1
          /\ resources' = resources \cup { "index_engine" }
          /\ mig_pc' = "uncaught"
          /\ UNCHANGED << created_indexes, index_warnings >>
    /\ UNCHANGED << mig_bare_info_ok, response, postgres_url, sqlite_rows, target,
                    pending, ti, records, ri, total_migrated, table_status,
                    commits, committed_by, error_log, all_match, mig_result,
                    main_log >>

\* __main__: after create_indexes() the success lines, after a migrate_data()
\* that returned False "Migration failed - check errors above"
MainReport ==
    /\ \/ mig_pc = "indexed"
       \/ mig_pc = "returned" /\ mig_result = "False"
    /\ UNCHANGED notMig
    /\ main_log' = IF mig_result = "True"
                      THEN main_log \o SuccessLines
                      ELSE main_log \o << "Migration failed - check errors above" >>
    /\ mig_pc' = "exit"
    /\ UNCHANGED << created_indexes, index_warnings, mig_bare_info_ok, response,
                    postgres_url, sqlite_rows, target, pending, ti,
                    records, ri, total_migrated, table_status, commits,
                    committed_by, error_log, faults, resources, all_match,
                    mig_result >>

MigNext ==
    \/ MainPrompt
    \/ CheckUrl
    \/ Setup
    \/ Query
    \/ AddRecord
    \/ Commit
    \/ UpdateSequences
    \/ VerifyAndClose
    \/ CreateIndexes
    \/ MainReport


(***************************************************************************)
(* full_main.py                                                            *)
(***************************************************************************)

\* d[k] = v on a dict
Put(d, k, v) == (k :> v) @@ d

\* d.get(k, default)
Get(d, k, default) == IF k \in DOMAIN d THEN d[k] ELSE default

\* the try blocks of full_lifespan, in program order (step 10 has four)
StepOrder == << "gpu_foundation", "embedding_model", "gyroscopic_security",
                "universal_translator", "universal_comprehension",
                "quantum_cognitive", "therapeutic_intervention",
                "output_intelligence", "thermodynamic_engine", "vault_manager",
                "contradiction_engine", "axis_stability_monitor",
                "cognitive_cycle", "background_jobs", "metrics" >>

StepNames == { StepOrder[k] : k \in 1..Len(StepOrder) }

\* the statement after the try block of step s
AfterStep(s) ==
    LET k == CHOOSE j \in 1..Len(StepOrder) : StepOrder[j] = s
    IN  IF k < Len(StepOrder) THEN StepOrder[k + 1] ELSE "finalize"

\* what initialize_embedding_model() may return: with or without .encode
EmbeddingModels == { "EncoderModel", "OpaqueModel" }

\* app.state.embedding_model and hasattr(app.state.embedding_model, 'encode')
HasEncode(model) == model # "None" /\ model = "EncoderModel"

LifeInit ==
    /\ kimera_system = << >>
    /\ app_state = << >>
    /\ life_pc = "gpu_foundation"
    /\ attempted = {}
    /\ initialized = {}
    /\ warnings = {}
    /\ critical_log = FALSE
    /\ background_jobs = "not_started"
    /\ collecting = FALSE
    /\ stop_calls = 0
    /\ shutdown_log = "none"

\* try: obj = Class(); app.state.attr = obj; kimera_system[key] = obj
\* except Exception: warning; app.state.attr = None
ComponentStep(key, attr, objects) ==
    /\ life_pc = key
    /\ UNCHANGED notLife
    /\ attempted' = attempted \cup { key }
    /\ life_pc' = AfterStep(key)
    /\ \/ \E obj \in objects :
             /\ app_state' = Put(app_state, attr, obj)
             /\ kimera_system' = Put(kimera_system, key, obj)
             /\ initialized' = initialized \cup { key }
             /\ UNCHANGED warnings
       \/ /\ app_state' = Put(app_state, attr, "None")
          /\ warnings' = warnings \cup { key }
          /\ UNCHANGED << kimera_system, initialized >>
    /\ UNCHANGED << critical_log, background_jobs, collecting, stop_calls,
                    shutdown_log >>

\* Step 1: GPU Foundation
Step1 == ComponentStep("gpu_foundation", "gpu_foundation", { "GPUFoundation" })

\* Step 2: Embedding Model
Step2 == ComponentStep("embedding_model", "embedding_model", EmbeddingModels)

\* Step 3: Gyroscopic Security Core
Step3 == ComponentStep("gyroscopic_security", "gyroscopic_security",
                       { "GyroscopicSecurityCore" })

\* Step 4: Rigorous Universal Translator
Step4 == ComponentStep("universal_translator", "universal_translator",
                       { "RigorousUniversalTranslator" })

\* Step 5: Universal Output Comprehension Engine; on failure a mock is registered
Step5 ==
    /\ life_pc = "universal_comprehension"
    /\ UNCHANGED notLife
    /\ attempted' = attempted \cup { "universal_comprehension" }
    /\ life_pc' = AfterStep("universal_comprehension")
    /\ \/ /\ app_state' = Put(app_state, "comprehension_engine",
                              "UniversalOutputComprehensionEngine")
          /\ kimera_system' = Put(kimera_system, "universal_comprehension",
                                  "UniversalOutputComprehensionEngine")
          /\ initialized' = initialized \cup { "universal_comprehension" }
          /\ UNCHANGED warnings
       \/ /\ app_state' = Put(app_state, "comprehension_engine", "MockComprehension")
          /\ kimera_system' = Put(kimera_system, "universal_comprehension",
                                  "MockComprehension")
          /\ warnings' = warnings \cup { "universal_comprehension" }
          /\ UNCHANGED initialized
    /\ UNCHANGED << critical_log, background_jobs, collecting, stop_calls,
                    shutdown_log >>

\* Step 6: Quantum Cognitive Engine
Step6 == ComponentStep("quantum_cognitive", "quantum_cognitive",
                       { "QuantumCognitiveEngine" })

\* Step 7: Therapeutic Intervention System
Step7 == ComponentStep("therapeutic_intervention", "therapeutic_system",
                       { "TherapeuticInterventionSystem" })

\* Step 8: KIMERA Output Intelligence System
Step8 == ComponentStep("output_intelligence", "output_intelligence",
                       { "KimeraOutputIntelligenceSystem" })

\* the outer "except Exception" of full_lifespan, then the yield
\* an outer handler that records the error and lets startup go on
CriticalErrorKeepsGoing ==
    /\ critical_log' = TRUE
    /\ kimera_system' = Put(Put(kimera_system, "status", "error"), "error", "str(e)")
    /\ life_pc' = "finalize"

CriticalError ==
    /\ critical_log' = TRUE
    /\ kimera_system' = Put(Put(kimera_system, "status", "error"), "error", "str(e)")
    /\ life_pc' = "serving"

\* Step 9: Thermodynamic Engine. "except ImportError" falls back to the legacy
\* engine; an exception raised inside that handler is not caught by the
\* sibling "except Exception" and reaches the outer handler.
Step9 ==
    /\ life_pc = "thermodynamic_engine"
    /\ UNCHANGED notLife
    /\ attempted' = attempted \cup { "thermodynamic_engine" }
    /\ \/ /\ kimera_system' = Put(kimera_system, "thermodynamic_engine",
                                  "FoundationalThermodynamicEngine")
          /\ initialized' = initialized \cup { "thermodynamic_engine" }
          /\ life_pc' = AfterStep("thermodynamic_engine")
          /\ UNCHANGED << warnings, critical_log >>
       \/ \* ImportError, legacy engine loads
          /\ kimera_system' = Put(kimera_system, "thermodynamic_engine",
                                  "SemanticThermodynamicsEngine")
          /\ initialized' = initialized \cup { "thermodynamic_engine" }
          /\ life_pc' = AfterStep("thermodynamic_engine")
          /\ UNCHANGED << warnings, critical_log >>
       \/ \* ImportError, and the legacy import or constructor raises too
          /\ CriticalError
          /\ UNCHANGED << initialized, warnings >>
       \/ \* any other exception of the first engine
          /\ warnings' = warnings \cup { "thermodynamic_engine" }
          /\ life_pc' = AfterStep("thermodynamic_engine")
          /\ UNCHANGED << kimera_system, initialized, critical_log >>
    /\ UNCHANGED << app_state, background_jobs, collecting, stop_calls,
                    shutdown_log >>

\* try: kimera_system[key] = Class() / except Exception: warning
EngineStep(key, cls) ==
    /\ life_pc = key
    /\ UNCHANGED notLife
    /\ attempted' = attempted \cup { key }
    /\ life_pc' = AfterStep(key)
    /\ \/ /\ kimera_system' = Put(kimera_system, key, cls)
          /\ initialized' = initialized \cup { key }
          /\ UNCHANGED warnings
       \/ /\ warnings' = warnings \cup { key }
          /\ UNCHANGED << kimera_system, initialized >>
    /\ UNCHANGED << app_state, critical_log, background_jobs, collecting,
                    stop_calls, shutdown_log >>

\* Step 10: vault manager, contradiction engine, stability monitor, cycle
Step10VaultManager == EngineStep("vault_manager", "VaultManager")

Step10ContradictionEngine == EngineStep("contradiction_engine", "ContradictionEngine")

Step10AxisStabilityMonitor == EngineStep("axis_stability_monitor", "AxisStabilityMonitor")

Step10CognitiveCycle == EngineStep("cognitive_cycle", "KimeraCognitiveCycle")

\* Step 11: start_background_jobs(encoder); nothing is put in kimera_system
Step11 ==
    /\ life_pc = "background_jobs"
    /\ UNCHANGED notLife
    /\ attempted' = attempted \cup { "background_jobs" }
    /\ life_pc' = AfterStep("background_jobs")
    /\ \/ /\ background_jobs' = IF HasEncode(app_state["embedding_model"])
                                   THEN "running_with_model_encode"
                                   ELSE "running_with_zero_vector"
          /\ initialized' = initialized \cup { "background_jobs" }
          /\ UNCHANGED warnings
       \/ /\ warnings' = warnings \cup { "background_jobs" }
          /\ UNCHANGED << background_jobs, initialized >>
    /\ UNCHANGED << kimera_system, app_state, critical_log, collecting,
                    stop_calls, shutdown_log >>

\* Step 12: metrics are registered before start_background_collection() runs
Step12 ==
    /\ life_pc = "metrics"
    /\ UNCHANGED notLife
    /\ attempted' = attempted \cup { "metrics" }
    /\ life_pc' = AfterStep("metrics")
    /\ \/ /\ app_state' = Put(app_state, "metrics", "KimeraMetrics")
          /\ kimera_system' = Put(kimera_system, "metrics", "KimeraMetrics")
          /\ collecting' = TRUE
          /\ initialized' = initialized \cup { "metrics" }
          /\ UNCHANGED warnings
       \/ \* the import or get_kimera_metrics() raises
          /\ warnings' = warnings \cup { "metrics" }
          /\ UNCHANGED << app_state, kimera_system, collecting, initialized >>
       \/ \* start_background_collection() raises
          /\ app_state' = Put(app_state, "metrics", "KimeraMetrics")
          /\ kimera_system' = Put(kimera_system, "metrics", "KimeraMetrics")
          /\ warnings' = warnings \cup { "metrics" }
          /\ UNCHANGED << collecting, initialized >>
    /\ UNCHANGED << critical_log, background_jobs, stop_calls, shutdown_log >>

\* len(kimera_system)
DictLen(d) == Cardinality(DOMAIN d)

\* Step 13: Final System State, then the yield
Finalize ==
    /\ life_pc = "finalize"
    /\ UNCHANGED notLife
    /\ LET d1 == Put(kimera_system, "status", "fully_operational")
           d2 == Put(d1, "initialization_level", "complete")
           d3 == Put(d2, "cognitive_fidelity", 1)
       IN  kimera_system' = Put(d3, "components_loaded", DictLen(d3))
    /\ life_pc' = "serving"
    /\ UNCHANGED << app_state, attempted, initialized, warnings, critical_log,
                    background_jobs, collecting, stop_calls, shutdown_log >>

\* a cleanup whose status assignment sits inside the try block
ShutdownStatusInTry ==
    /\ life_pc = "serving"
    /\ UNCHANGED notLife
    /\ \/ /\ stop_calls' = stop_calls + 1
          /\ background_jobs' = "stopped"
          /\ UNCHANGED shutdown_log
          /\ kimera_system' = Put(kimera_system, "status", "shutdown")
       \/ \* stop_background_jobs() raises
          /\ stop_calls' = stop_calls + 1
          /\ shutdown_log' = "Error stopping background jobs"
          /\ UNCHANGED background_jobs
          /\ UNCHANGED kimera_system
       \/ \* stop_background_jobs() raises ImportError
          /\ stop_calls' = stop_calls + 1
          /\ shutdown_log' = "Background jobs module not available for shutdown"
          /\ UNCHANGED background_jobs
          /\ UNCHANGED kimera_system
       \/ \* the import raises ImportError
          /\ shutdown_log' = "Background jobs module not available for shutdown"
          /\ UNCHANGED << stop_calls, background_jobs >>
          /\ UNCHANGED kimera_system
       \/ \* the import raises another exception
          /\ shutdown_log' = "Error stopping background jobs"
          /\ UNCHANGED << stop_calls, background_jobs >>
          /\ UNCHANGED kimera_system
    /\ life_pc' = "exited"
    /\ UNCHANGED << app_state, attempted, initialized, warnings, critical_log,
                    collecting >>

\* Cleanup after the yield, when the lifespan is resumed there: stop the
\* background jobs, status = 'shutdown'
Shutdown ==
    /\ life_pc = "serving"
    /\ UNCHANGED notLife
    /\ \/ /\ stop_calls' = stop_calls + 1
          /\ background_jobs' = "stopped"
          /\ UNCHANGED shutdown_log
          /\ kimera_system' = Put(kimera_system, "status", "shutdown")
       \/ \* stop_background_jobs() raises
          /\ stop_calls' = stop_calls + 1
          /\ shutdown_log' = "Error stopping background jobs"
          /\ UNCHANGED background_jobs
          /\ kimera_system' = Put(kimera_system, "status", "shutdown")
       \/ \* stop_background_jobs() raises ImportError
          /\ stop_calls' = stop_calls + 1
          /\ shutdown_log' = "Background jobs module not available for shutdown"
          /\ UNCHANGED background_jobs
          /\ kimera_system' = Put(kimera_system, "status", "shutdown")
       \/ \* the import raises ImportError
          /\ shutdown_log' = "Background jobs module not available for shutdown"
          /\ UNCHANGED << stop_calls, background_jobs >>
          /\ kimera_system' = Put(kimera_system, "status", "shutdown")
       \/ \* the import raises another exception
          /\ shutdown_log' = "Error stopping background jobs"
          /\ UNCHANGED << stop_calls, background_jobs >>
          /\ kimera_system' = Put(kimera_system, "status", "shutdown")
    /\ life_pc' = "exited"
    /\ UNCHANGED << app_state, attempted, initialized, warnings, critical_log,
                    collecting >>

\* an exception is thrown into the lifespan at the yield (line 231): the
\* cleanup is not in a finally block, so the exception leaves the function
\* and lines 234-242 do not run
YieldRaises ==
    /\ life_pc = "serving"
    /\ UNCHANGED notLife
    /\ life_pc' = "exited"
    /\ UNCHANGED << kimera_system, app_state, attempted, initialized, warnings,
                    critical_log, background_jobs, collecting, stop_calls,
                    shutdown_log >>

\* a health check that only looks for the 'error' status
health_check_not_error ==
    [ status |-> IF Get(kimera_system, "status", "None") # "error"
                    THEN "healthy" ELSE "degraded",
      system_status |-> Get(kimera_system, "status", "unknown"),
      initialization_level |-> Get(kimera_system, "initialization_level", "unknown"),
      cognitive_fidelity |-> Get(kimera_system, "cognitive_fidelity", 0),
      components_loaded |-> Get(kimera_system, "components_loaded", 0),
      full_server |-> TRUE ]

\* GET /system/health
health_check ==
    [ status |-> IF Get(kimera_system, "status", "None") = "fully_operational"
                    THEN "healthy" ELSE "degraded",
      system_status |-> Get(kimera_system, "status", "unknown"),
      initialization_level |-> Get(kimera_system, "initialization_level", "unknown"),
      cognitive_fidelity |-> Get(kimera_system, "cognitive_fidelity", 0),
      components_loaded |-> Get(kimera_system, "components_loaded", 0),
      full_server |-> TRUE ]

\* GET /
root ==
    [ status |-> Get(kimera_system, "status", "unknown"),
      initialization_level |-> Get(kimera_system, "initialization_level", "unknown"),
      cognitive_fidelity |-> Get(kimera_system, "cognitive_fidelity", 0),
      components_loaded |-> Get(kimera_system, "components_loaded", 0),
      capabilities |->
        [ universal_output_comprehension |-> "universal_comprehension" \in DOMAIN kimera_system,
          therapeutic_intervention |-> "therapeutic_intervention" \in DOMAIN kimera_system,
          rigorous_universal_translator |-> "universal_translator" \in DOMAIN kimera_system,
          quantum_cognitive_processing |-> "quantum_cognitive" \in DOMAIN kimera_system,
          gyroscopic_security |-> "gyroscopic_security" \in DOMAIN kimera_system,
          thermodynamic_engine |-> "thermodynamic_engine" \in DOMAIN kimera_system,
          complete_background_processing |-> "metrics" \in DOMAIN kimera_system ] ]

\* GET /system/status
system_status ==
    [ kimera_system |-> kimera_system,
      full_server_mode |-> TRUE,
      no_compromises |-> TRUE,
      all_components_enabled |-> TRUE ]

\* GET /system/components
get_components ==
    LET components == DOMAIN kimera_system
    IN  [ components |-> components,
          total_components |-> Cardinality(components),
          system_status |-> Get(kimera_system, "status", "unknown"),
          cognitive_fidelity |-> Get(kimera_system, "cognitive_fidelity", 0) ]

LifeNext ==
    \/ Step1
    \/ Step2
    \/ Step3
    \/ Step4
    \/ Step5
    \/ Step6
    \/ Step7
    \/ Step8
    \/ Step9
    \/ Step10VaultManager
    \/ Step10ContradictionEngine
    \/ Step10AxisStabilityMonitor
    \/ Step10CognitiveCycle
    \/ Step11
    \/ Step12
    \/ Finalize
    \/ Shutdown
    \/ YieldRaises

(***************************************************************************)
(* Test harness scripts                                                    *)
(***************************************************************************)
HarnessScripts == { "comprehensive_system_test", "test_statsmodels_integration",
                    "gpu_stress_test_real_performance" }

\* main has not returned yet (a returned value v is held as << v >>)
NoCode == << >>

\* the state of the three harness scripts before any of them has run
HarStart ==
    /\ cst_pc = 1
    /\ cst_completed = << >>
    /\ cst_test_results = {}
    /\ cst_report_file = FALSE
    /\ cst_exit_code = NoCode
    /\ sm_pc = "import"
    /\ sm_calls = << >>
    /\ sm_outcomes = << >>
    /\ sm_test_results = << >>
    /\ sm_availability = FALSE
    /\ sm_recommendations = << >>
    /\ sm_report_saved = FALSE
    /\ gpu_pc = "initial_memory"
    /\ gpu_calls = << >>
    /\ gpu_results = {}
    /\ gpu_file_written = FALSE
    /\ gpu_outcome = "running"

HarInit ==
    /\ script \in HarnessScripts
    /\ statsmodels_installed \in BOOLEAN
    /\ HarStart

\* no harness script is run
HarIdle ==
    /\ script = "none"
    /\ statsmodels_installed = FALSE
    /\ HarStart

(***************************************************************************)
(* comprehensive_system_test.py : main                                     *)
(***************************************************************************)
\* the calls inside main's try block, in program order
CstCalls == << "ComprehensiveSystemTest", "test_entropy_monitoring_enhancements",
               "test_adaptive_threshold_system",
               "test_enhanced_predictability_patterns",
               "test_thermodynamic_compliance", "test_system_integration",
               "generate_test_report" >>

\* the key each test category stores in self.test_results
CstKey(call) ==
    CASE call = "test_entropy_monitoring_enhancements" -> { "entropy_monitoring" }
      [] call = "test_adaptive_threshold_system" -> { "adaptive_threshold" }
      [] call = "test_enhanced_predictability_patterns" -> { "predictability" }
      [] call = "test_thermodynamic_compliance" -> { "thermodynamic_compliance" }
      [] call = "test_system_integration" -> { "system_integration" }
      [] OTHER -> {}

\* a main that returns 0 from its except block as well
CstExitCodeAlwaysZero(raised) == 0

\* return 0 at the end of the try block, return 1 in "except Exception"
CstExitCode(raised) == IF raised THEN 1 ELSE 0

\* one call of the try block: it returns, or it raises and main returns 1
CstCall ==
    /\ script = "comprehensive_system_test"
    /\ UNCHANGED notHar
    /\ cst_exit_code = NoCode
    /\ cst_pc \in 1..Len(CstCalls)
    /\ \/ /\ cst_completed' = Append(cst_completed, CstCalls[cst_pc])
          /\ cst_test_results' = cst_test_results \cup CstKey(CstCalls[cst_pc])
          /\ cst_report_file' = (CstCalls[cst_pc] = "generate_test_report")
          /\ cst_pc' = cst_pc + 1
          /\ UNCHANGED cst_exit_code
       \/ \* raises; a test may have stored its key, the report its file, before
          /\ \E stored \in { {}, CstKey(CstCalls[cst_pc]) } :
                cst_test_results' = cst_test_results \cup stored
          /\ \E written \in { FALSE, CstCalls[cst_pc] = "generate_test_report" } :
                cst_report_file' = written
          /\ cst_exit_code' = << CstExitCode(TRUE) >>
          /\ UNCHANGED << cst_completed, cst_pc >>
    /\ UNCHANGED << script, statsmodels_installed, sm_pc, sm_calls, sm_outcomes, sm_test_results,
                    sm_availability, sm_recommendations, sm_report_saved, gpu_pc,
                    gpu_calls, gpu_results, gpu_file_written, gpu_outcome >>

\* the end of the try block: log success, return 0
CstReturn ==
    /\ script = "comprehensive_system_test"
    /\ UNCHANGED notHar
    /\ cst_exit_code = NoCode
    /\ cst_pc = Len(CstCalls) + 1
    /\ cst_exit_code' = << CstExitCode(FALSE) >>
    /\ UNCHANGED << cst_pc, cst_completed, cst_test_results, cst_report_file >>
    /\ UNCHANGED << script, statsmodels_installed, sm_pc, sm_calls, sm_outcomes, sm_test_results,
                    sm_availability, sm_recommendations, sm_report_saved, gpu_pc,
                    gpu_calls, gpu_results, gpu_file_written, gpu_outcome >>

(***************************************************************************)
(* test_statsmodels_integration.py : generate_integration_report           *)
(***************************************************************************)
\* the tests list: the names under which the nine test functions are run
tests == << "statsmodels_availability", "statistical_modeling_engine",
            "time_series_analysis", "regression_analysis", "econometric_analysis",
            "comprehensive_analysis", "forecasting_and_control_monitoring",
            "system_integration", "performance_comparison" >>

\* what a call test_func() can do: return a truthy or falsy value, or raise.
\* test_statsmodels_availability returns False when statsmodels is missing.
TestOutcomes(test_name) ==
    IF test_name = "statsmodels_availability" /\ ~ statsmodels_installed
       THEN { "falsy" }
       ELSE { "truthy", "falsy", "raise" }

\* a report that records a raised exception as a plain failure
StatusOfWithoutError(outcome) == IF outcome = "truthy" THEN "passed" ELSE "failed"

\* 'passed' if result else 'failed'; 'error' in the except block
StatusOf(outcome) ==
    CASE outcome = "truthy" -> "passed"
      [] outcome = "falsy" -> "failed"
      [] outcome = "raise" -> "error"

\* try: import statsmodels ... except ImportError: recommend installing it
SmImport ==
    /\ script = "test_statsmodels_integration"
    /\ UNCHANGED notHar
    /\ sm_pc = "import"
    /\ IF statsmodels_installed
          THEN /\ sm_availability' = TRUE
               /\ UNCHANGED sm_recommendations
          ELSE /\ sm_recommendations' =
                     Append(sm_recommendations,
                            [ text |-> "Install statsmodels: pip install statsmodels",
                              names |-> << >> ])
               /\ UNCHANGED sm_availability
    /\ sm_pc' = "tests"
    /\ UNCHANGED << sm_calls, sm_outcomes, sm_test_results, sm_report_saved >>
    /\ UNCHANGED << script, statsmodels_installed, cst_pc, cst_completed,
                    cst_test_results, cst_report_file, cst_exit_code, gpu_pc,
                    gpu_calls, gpu_results, gpu_file_written, gpu_outcome >>

\* one iteration of "for test_name, test_func in tests"
SmRunTest ==
    /\ script = "test_statsmodels_integration"
    /\ UNCHANGED notHar
    /\ sm_pc = "tests"
    /\ Len(sm_calls) < Len(tests)
    /\ LET test_name == tests[Len(sm_calls) + 1]
       IN  /\ sm_calls' = Append(sm_calls, test_name)
           /\ \E outcome \in TestOutcomes(test_name) :
                 /\ sm_outcomes' = Append(sm_outcomes, outcome)
                 /\ sm_test_results' = Put(sm_test_results, test_name, StatusOf(outcome))
    /\ UNCHANGED << sm_pc, sm_availability, sm_recommendations, sm_report_saved >>
    /\ UNCHANGED << script, statsmodels_installed, cst_pc, cst_completed,
                    cst_test_results, cst_report_file, cst_exit_code, gpu_pc,
                    gpu_calls, gpu_results, gpu_file_written, gpu_outcome >>

\* [name for name, result in report['test_results'].items() if status != 'passed']
FailedTests ==
    SelectSeq(sm_calls, LAMBDA n : sm_test_results[n] # "passed")

\* len([r for r in report['test_results'].values() if r['status'] == 'passed'])
PassedTests ==
    Cardinality({ n \in DOMAIN sm_test_results : sm_test_results[n] = "passed" })

\* len(report['test_results'])
TotalTests == Cardinality(DOMAIN sm_test_results)

\* after the loop: the recommendations, then the report file
SmRecommendAndSave ==
    /\ script = "test_statsmodels_integration"
    /\ UNCHANGED notHar
    /\ sm_pc = "tests"
    /\ Len(sm_calls) = Len(tests)
    /\ LET r1 == IF Len(FailedTests) > 0
                    THEN Append(sm_recommendations,
                                [ text |-> "Review failed tests", names |-> FailedTests ])
                    ELSE sm_recommendations
           r2 == IF sm_availability
                    THEN Append(r1, [ text |-> "Statsmodels integration successful - ready for production use",
                                      names |-> << >> ])
                    ELSE Append(r1, [ text |-> "Install statsmodels to enable advanced statistical features",
                                      names |-> << >> ])
       IN  sm_recommendations' = r2
    /\ \/ /\ sm_report_saved' = TRUE
          /\ sm_pc' = "returned"
       \/ \* open() or json.dump raises: nothing catches it
          /\ sm_report_saved' = FALSE
          /\ sm_pc' = "crashed"
    /\ UNCHANGED << sm_calls, sm_outcomes, sm_test_results, sm_availability >>
    /\ UNCHANGED << script, statsmodels_installed, cst_pc, cst_completed,
                    cst_test_results, cst_report_file, cst_exit_code, gpu_pc,
                    gpu_calls, gpu_results, gpu_file_written, gpu_outcome >>

(***************************************************************************)
(* gpu_stress_test_real_performance.py : main                              *)
(***************************************************************************)
\* the statements of main's try block: the call and the results key it fills
GpuCalls == << [ call |-> "stress_test_field_creation", key |-> { "field_creation" } ],
               [ call |-> "empty_cache", key |-> {} ],
               [ call |-> "stress_test_neighbor_finding", key |-> { "neighbor_finding" } ],
               [ call |-> "empty_cache", key |-> {} ],
               [ call |-> "stress_test_batch_operations", key |-> { "batch_operations" } ],
               [ call |-> "empty_cache", key |-> {} ],
               [ call |-> "compare_with_jax_performance", key |-> { "performance_comparison" } ] >>

\* an except block without its return: main goes on to the summary
GpuExceptFallsThrough == "summary"

\* the except block of main ends in "return"
GpuExceptTarget == "returned"

\* initial_memory = gpu_memory_usage(), outside the try block
GpuInitialMemory ==
    /\ script = "gpu_stress_test_real_performance"
    /\ UNCHANGED notHar
    /\ gpu_pc = "initial_memory"
    /\ \/ /\ gpu_pc' = "try"
          /\ UNCHANGED gpu_outcome
       \/ /\ gpu_pc' = "crashed"
          /\ gpu_outcome' = "crashed"
    /\ UNCHANGED << gpu_calls, gpu_results, gpu_file_written >>
    /\ UNCHANGED << script, statsmodels_installed, cst_pc, cst_completed,
                    cst_test_results, cst_report_file, cst_exit_code, sm_pc,
                    sm_calls, sm_outcomes, sm_test_results, sm_availability,
                    sm_recommendations, sm_report_saved >>

\* one statement of the try block
GpuStep ==
    /\ script = "gpu_stress_test_real_performance"
    /\ UNCHANGED notHar
    /\ gpu_pc = "try"
    /\ Len(gpu_calls) < Len(GpuCalls)
    /\ LET c == GpuCalls[Len(gpu_calls) + 1]
       IN  \/ /\ gpu_calls' = Append(gpu_calls, c.call)
              /\ gpu_results' = gpu_results \cup c.key
              /\ gpu_pc' = IF Len(gpu_calls') = Len(GpuCalls) THEN "summary" ELSE "try"
              /\ UNCHANGED gpu_outcome
           \/ /\ gpu_pc' = GpuExceptTarget
              /\ gpu_outcome' = IF GpuExceptTarget = "returned" THEN "returned_early"
                                                                ELSE gpu_outcome
              /\ UNCHANGED << gpu_calls, gpu_results >>
    /\ UNCHANGED gpu_file_written
    /\ UNCHANGED << script, statsmodels_installed, cst_pc, cst_completed,
                    cst_test_results, cst_report_file, cst_exit_code, sm_pc,
                    sm_calls, sm_outcomes, sm_test_results, sm_availability,
                    sm_recommendations, sm_report_saved >>

\* the final summary reads results[...] (outside the try), then the file is saved
GpuSummaryAndSave ==
    /\ script = "gpu_stress_test_real_performance"
    /\ UNCHANGED notHar
    /\ gpu_pc = "summary"
    /\ \/ \* a lookup or a format in the summary raises
          /\ gpu_pc' = "crashed"
          /\ gpu_outcome' = "crashed"
          /\ UNCHANGED gpu_file_written
       \/ \* json.dump raises after the file was opened
          /\ gpu_pc' = "crashed"
          /\ gpu_outcome' = "crashed"
          /\ gpu_file_written' = TRUE
       \/ /\ gpu_pc' = "done"
          /\ gpu_outcome' = "completed"
          /\ gpu_file_written' = TRUE
    /\ UNCHANGED << gpu_calls, gpu_results >>
    /\ UNCHANGED << script, statsmodels_installed, cst_pc, cst_completed,
                    cst_test_results, cst_report_file, cst_exit_code, sm_pc,
                    sm_calls, sm_outcomes, sm_test_results, sm_availability,
                    sm_recommendations, sm_report_saved >>

HarNext ==
    \/ CstCall
    \/ CstReturn
    \/ SmImport
    \/ SmRunTest
    \/ SmRecommendAndSave
    \/ GpuInitialMemory
    \/ GpuStep
    \/ GpuSummaryAndSave

(***************************************************************************)
(* populate_test_data.py                                                   *)
(*                                                                         *)
(* Several logger calls of the file as shipped have their f-string cut off *)
(* after the interpolated expression (line 180 is the first), so the file  *)
(* does not compile as it stands.  A logging call changes no state; the    *)
(* model follows the control flow of the functions as written.             *)
(***************************************************************************)
\* the names of test_concepts, in list order
test_concepts == << "consciousness", "intelligence", "emotion", "creativity",
                    "language", "mathematics", "music", "time", "space", "memory" >>

\* the echoforms, in list order (by their head symbol)
echoforms == << "define", "assert", "query", "hypothesize", "observe" >>

\* the three GETs of check_system_status
status_paths == << "/monitoring/status", "/system/health", "/system/utilization_stats" >>

\* what a request can meet: HTTP 200 with a usable body, HTTP 200 with a body
\* that json() or the key lookup rejects, another status code, an exception
Outcomes == { "200", "200_bad_body", "non200", "raise" }

ApiModes == { "up", "rejecting", "down" }

\* the answer the API gives as a rule
DefaultOutcome(mode) ==
    CASE mode = "up" -> "200"
      [] mode = "rejecting" -> "non200"
      [] mode = "down" -> "raise"

\* outcome o is possible now
Answers(o) == o = DefaultOutcome(api_mode) \/ deviations < MaxDeviations

\* the deviation count after an answer o
Deviated(o) == IF o = DefaultOutcome(api_mode) THEN deviations ELSE deviations + 1

\* data["geoid_id"]: the API numbers the geoids it creates by request
GeoidId(ordinal) == ordinal

\* a loop body without the status check
CollectAnyResponse(created_geoids, o, geoid_id) ==
    IF o \in { "200", "non200" } THEN Append(created_geoids, geoid_id) ELSE created_geoids

\* the body of the try block: on status 200 read the body and append its
\* geoid_id (a body without one raises into the except branch); otherwise
\* only log
Collect(created_geoids, o, geoid_id) ==
    IF o = "200" THEN Append(created_geoids, geoid_id) ELSE created_geoids

\* min(a, b)
Min(a, b) == IF a < b THEN a ELSE b

\* a probe whose failure is ignored
ProbeIgnored(o) == TRUE

\* try: requests.get(BASE_URL/docs, timeout=2) / except: return
ProbeOk(o) == o # "raise"

\* if geoid_ids:
Truthy(list) == Len(list) > 0

PopStart ==
    /\ deviations = 0
    /\ pop_pc = "probe"
    /\ probe_outcome = "none"
    /\ pop_i = 0
    /\ semantic_geoids = << >>
    /\ echoform_geoids = << >>
    /\ geoid_outcomes = << >>
    /\ geoid_ids = << >>
    /\ total_scars = 0
    /\ posts = << >>
    /\ gets = << >>
    /\ phases = << >>

PopInit ==
    /\ api_mode \in ApiModes
    /\ PopStart

\* the script is not run
PopIdle ==
    /\ api_mode = "down"
    /\ PopStart

\* main: the reachability probe, then create_test_geoids() is entered
Probe ==
    /\ pop_pc = "probe"
    /\ UNCHANGED notPop
    /\ \E o \in Outcomes :
          /\ Answers(o)
          /\ deviations' = Deviated(o)
          /\ probe_outcome' = o
          /\ IF ProbeOk(o)
                THEN /\ pop_pc' = "create_test_geoids"
                     /\ phases' = Append(phases, "create_test_geoids")
                ELSE /\ pop_pc' = "no_api"
                     /\ UNCHANGED phases
    /\ UNCHANGED << api_mode, pop_i, semantic_geoids, echoform_geoids, geoid_ids,
                    geoid_outcomes, total_scars, posts, gets >>

\* one iteration of create_test_geoids; after the last one main extends
\* geoid_ids and enters create_echoform_geoids()
CreateTestGeoid ==
    /\ pop_pc = "create_test_geoids"
    /\ UNCHANGED notPop
    /\ pop_i < Len(test_concepts)
    /\ posts' = Append(posts, "create_test_geoids")
    /\ \E o \in Outcomes :
          /\ Answers(o)
          /\ deviations' = Deviated(o)
          /\ geoid_outcomes' = Append(geoid_outcomes, o)
          /\ semantic_geoids' = Collect(semantic_geoids, o, GeoidId(pop_i + 1))
    /\ IF pop_i + 1 = Len(test_concepts)
          THEN /\ geoid_ids' = geoid_ids \o semantic_geoids'
               /\ pop_pc' = "create_echoform_geoids"
               /\ phases' = Append(phases, "create_echoform_geoids")
               /\ pop_i' = 0
          ELSE /\ pop_i' = pop_i + 1
               /\ UNCHANGED << geoid_ids, pop_pc, phases >>
    /\ UNCHANGED << api_mode, probe_outcome, echoform_geoids, total_scars, gets >>

\* one iteration of create_echoform_geoids; after the last one main extends
\* geoid_ids and, if geoid_ids is not empty, enters process_contradictions,
\* otherwise run_system_cycles
CreateEchoformGeoid ==
    /\ pop_pc = "create_echoform_geoids"
    /\ UNCHANGED notPop
    /\ pop_i < Len(echoforms)
    /\ posts' = Append(posts, "create_echoform_geoids")
    /\ \E o \in Outcomes :
          /\ Answers(o)
          /\ deviations' = Deviated(o)
          /\ geoid_outcomes' = Append(geoid_outcomes, o)
          /\ echoform_geoids' =
                Collect(echoform_geoids, o, GeoidId(Len(test_concepts) + pop_i + 1))
    /\ IF pop_i + 1 = Len(echoforms)
          THEN /\ geoid_ids' = geoid_ids \o echoform_geoids'
               /\ pop_i' = 0
               /\ IF Truthy(geoid_ids')
                     THEN /\ pop_pc' = "process_contradictions"
                          /\ phases' = Append(phases, "process_contradictions")
                     ELSE /\ pop_pc' = "run_system_cycles"
                          /\ phases' = Append(phases, "run_system_cycles")
          ELSE /\ pop_i' = pop_i + 1
               /\ UNCHANGED << geoid_ids, pop_pc, phases >>
    /\ UNCHANGED << api_mode, probe_outcome, semantic_geoids, total_scars, gets >>

\* one iteration of process_contradictions (range(min(10, len(geoid_ids))));
\* after the last one main enters run_system_cycles
ProcessContradiction ==
    /\ pop_pc = "process_contradictions"
    /\ UNCHANGED notPop
    /\ pop_i < Min(10, Len(geoid_ids))
    /\ \E k \in 1..Len(geoid_ids) :
          \* trigger_geoid = random.choice(geoid_ids)
          posts' = Append(posts, "process_contradictions")
    /\ \E o \in Outcomes :
          /\ Answers(o)
          /\ deviations' = Deviated(o)
          /\ IF o = "200"
                THEN \E scars_created \in 0..MaxScars :
                        total_scars' = total_scars + scars_created
                ELSE UNCHANGED total_scars
    /\ IF pop_i + 1 = Min(10, Len(geoid_ids))
          THEN /\ pop_pc' = "run_system_cycles"
               /\ phases' = Append(phases, "run_system_cycles")
               /\ pop_i' = 0
          ELSE /\ pop_i' = pop_i + 1
               /\ UNCHANGED << pop_pc, phases >>
    /\ UNCHANGED << api_mode, probe_outcome, semantic_geoids, echoform_geoids, geoid_ids,
                    geoid_outcomes, gets >>

\* one iteration of run_system_cycles (range(3)); then run_proactive_scan
RunSystemCycle ==
    /\ pop_pc = "run_system_cycles"
    /\ UNCHANGED notPop
    /\ pop_i < 3
    /\ posts' = Append(posts, "run_system_cycles")
    /\ \E o \in Outcomes :
          /\ Answers(o)
          /\ deviations' = Deviated(o)
    /\ IF pop_i + 1 = 3
          THEN /\ pop_pc' = "run_proactive_scan"
               /\ phases' = Append(phases, "run_proactive_scan")
               /\ pop_i' = 0
          ELSE /\ pop_i' = pop_i + 1
               /\ UNCHANGED << pop_pc, phases >>
    /\ UNCHANGED << api_mode, probe_outcome, semantic_geoids, echoform_geoids, geoid_ids,
                    geoid_outcomes, total_scars, gets >>

\* run_proactive_scan: one POST; then check_system_status is entered
RunProactiveScan ==
    /\ pop_pc = "run_proactive_scan"
    /\ UNCHANGED notPop
    /\ posts' = Append(posts, "run_proactive_scan")
    /\ \E o \in Outcomes :
          /\ Answers(o)
          /\ deviations' = Deviated(o)
    /\ pop_pc' = "check_system_status"
    /\ phases' = Append(phases, "check_system_status")
    /\ UNCHANGED << api_mode, probe_outcome, pop_i, semantic_geoids, echoform_geoids,
                    geoid_ids, geoid_outcomes, total_scars, gets >>

\* check_system_status: three GETs inside one try block; an exception ends
\* the function, any answer goes on to the next GET; then main is done
CheckSystemStatus ==
    /\ pop_pc = "check_system_status"
    /\ UNCHANGED notPop
    /\ pop_i < Len(status_paths)
    /\ gets' = Append(gets, status_paths[pop_i + 1])
    /\ \E o \in Outcomes :
          /\ Answers(o)
          /\ deviations' = Deviated(o)
          /\ IF o \in { "raise", "200_bad_body" } \/ pop_i + 1 = Len(status_paths)
                THEN /\ pop_pc' = "done"
                     /\ pop_i' = 0
                ELSE /\ pop_i' = pop_i + 1
                     /\ UNCHANGED pop_pc
    /\ UNCHANGED << api_mode, probe_outcome, semantic_geoids, echoform_geoids, geoid_ids,
                    geoid_outcomes, total_scars, posts, phases >>

PopNext ==
    \/ Probe
    \/ CreateTestGeoid
    \/ CreateEchoformGeoid
    \/ ProcessContradiction
    \/ RunSystemCycle
    \/ RunProactiveScan
    \/ CheckSystemStatus

(***************************************************************************)
(* start_kimera_trading_simulation.py                                      *)
(*                                                                         *)
(* main calls logger.info() without a message at line 138 and in the       *)
(* functions it calls next; the logger comes from backend.utils.           *)
(* kimera_logger, which is not part of these sources, so whether such a    *)
(* call returns or raises TypeError is left open (tr_bare_info_ok).        *)
(***************************************************************************)
\* check_dependencies' required_packages, in list order
required_packages == << "aiohttp", "yfinance", "ccxt", "dash", "plotly",
                        "pandas", "numpy", "python-dotenv" >>

\* the characters a typed line is made of
InputChars == { " ", "1", "2", "3", "4", "5" }

\* str.strip() strips these
Whitespace == { " " }

\* the lines input() can return: sequences of at most MaxInputLen characters
InputLines == UNION { [1..n -> InputChars] : n \in 0..MaxInputLen }

\* str.lstrip()
RECURSIVE LStrip(_)
LStrip(s) ==
    IF s # << >> /\ Head(s) \in Whitespace THEN LStrip(Tail(s)) ELSE s

\* str.rstrip()
RECURSIVE RStrip(_)
RStrip(s) ==
    IF s # << >> /\ s[Len(s)] \in Whitespace
       THEN RStrip(SubSeq(s, 1, Len(s) - 1))
       ELSE s

\* str.strip()
Strip(s) == RStrip(LStrip(s))

\* a dispatch whose last branch hands the typed choice on
SimulationRunsEcho(choice) ==
    IF choice = << "4" >> THEN << >> ELSE << choice >>

\* main, lines 155-177: the input= argument of each
\* subprocess.run([sys.executable, simulation_path], ...) the choice leads to
SimulationRuns(choice) ==
    IF choice = << "4" >> THEN << >>
    ELSE IF choice = << "1" >> THEN << << "1" >> >>
    ELSE IF choice = << "2" >> THEN << << "2" >> >>
    ELSE IF choice = << "3" >> THEN << << "3" >> >>
    ELSE << << "3" >> >>

TrStart ==
    /\ tr_pc = "check_dependencies"
    /\ tr_i = 0
    /\ missing_packages = << >>
    /\ pip_installs = << >>
    /\ connections = << >>
    /\ raw_choice = << >>
    /\ launched = << >>

TrInit ==
    /\ tr_bare_info_ok \in BOOLEAN
    /\ TrStart

\* the script is not run
TrIdle ==
    /\ tr_bare_info_ok = TRUE
    /\ TrStart

\* check_dependencies: one iteration of the import loop; after the last one
\* every missing package is handed to pip, and main goes on to line 138
CheckDependency ==
    /\ tr_pc = "check_dependencies"
    /\ UNCHANGED notTr
    /\ tr_i < Len(required_packages)
    /\ \E imported \in BOOLEAN :
          missing_packages' = IF imported
                                 THEN missing_packages
                                 ELSE Append(missing_packages, required_packages[tr_i + 1])
    /\ IF tr_i + 1 = Len(required_packages)
          THEN /\ pip_installs' = pip_installs \o missing_packages'
               /\ tr_pc' = "main_138"
               /\ tr_i' = 0
          ELSE /\ tr_i' = tr_i + 1
               /\ UNCHANGED << pip_installs, tr_pc >>
    /\ UNCHANGED << tr_bare_info_ok, connections, raw_choice, launched >>

\* main, line 138: logger.info() without a message, then show_system_info
\* (which repeats the call); a TypeError leaves main
BareInfo ==
    /\ tr_pc = "main_138"
    /\ UNCHANGED notTr
    /\ tr_pc' = IF tr_bare_info_ok THEN "test_system_connections" ELSE "type_error"
    /\ UNCHANGED << tr_bare_info_ok, tr_i, missing_packages, pip_installs,
                    connections, raw_choice, launched >>

\* test_system_connections: one of its two try blocks; after the second,
\* show_trading_parameters and show_simulation_options only log
TestConnection ==
    /\ tr_pc = "test_system_connections"
    /\ UNCHANGED notTr
    /\ tr_i < 2
    /\ \E outcome \in { "ok", "failed" } :
          connections' = Append(connections, outcome)
    /\ IF tr_i + 1 = 2
          THEN /\ tr_pc' = "input"
               /\ tr_i' = 0
          ELSE /\ tr_i' = tr_i + 1
               /\ UNCHANGED tr_pc
    /\ UNCHANGED << tr_bare_info_ok, missing_packages, pip_installs,
                    raw_choice, launched >>

\* main, lines 153-177: read the choice, strip it, launch what it selects
SelectMode ==
    /\ tr_pc = "input"
    /\ UNCHANGED notTr
    /\ \E line \in InputLines :
          /\ raw_choice' = line
          /\ launched' = launched \o SimulationRuns(Strip(line))
    /\ tr_pc' = "done"
    /\ UNCHANGED << tr_bare_info_ok, tr_i, missing_packages, pip_installs,
                    connections >>

TrNext ==
    \/ CheckDependency
    \/ BareInfo
    \/ TestConnection
    \/ SelectMode

(***************************************************************************)
(* gpu_stress_test_real_performance.py : monitor_gpu_utilization           *)
(***************************************************************************)
\* util.gpu readings
GpuUtils == { 0, 50, 100 }

\* setattr(obj, '__bool__', ...) where obj is the bool True: CPython raises
\* AttributeError (the attribute of a bool instance is read-only) and obj is
\* what it was
SetattrOnBool(obj) == [ raised |-> TRUE, obj |-> obj ]

\* the first MaxSamples samples are recorded
Record(list, sample) ==
    IF Len(list) < MaxSamples THEN Append(list, sample) ELSE list

MonInit ==
    /\ mon_pc = "start"
    /\ stop_kind = "none"
    /\ monitoring = FALSE
    /\ utilizations = << >>
    /\ thread_state = "none"
    /\ stop_state = "not_invoked"

\* monitor_gpu_utilization() up to line 72: import pynvml, nvmlInit, create
\* the closure variables, start the thread; on ImportError return
\* ([], lambda: None).  Once started the thread runs on its own, also before
\* the function has returned.
MonitorGpuUtilization ==
    /\ mon_pc = "start"
    /\ thread_state = "none"
    /\ ~ monitoring
    /\ UNCHANGED notMon
    /\ \/ /\ monitoring' = TRUE
          /\ thread_state' = "testing"
          /\ UNCHANGED << stop_kind, mon_pc >>
       \/ \* import pynvml raises ImportError
          /\ stop_kind' = "noop"
          /\ mon_pc' = "returned"
          /\ UNCHANGED << monitoring, thread_state >>
       \/ \* nvmlInit or nvmlDeviceGetHandleByIndex raises
          /\ mon_pc' = "raised"
          /\ UNCHANGED << monitoring, thread_state, stop_kind >>
       \/ \* threading.Thread(...) or start() raises: no thread runs
          /\ monitoring' = TRUE
          /\ mon_pc' = "raised"
          /\ UNCHANGED << thread_state, stop_kind >>
    /\ UNCHANGED << utilizations, stop_state >>

\* line 74: return utilizations and the stop callable
MonitorReturn ==
    /\ mon_pc = "start"
    /\ thread_state # "none"
    /\ UNCHANGED notMon
    /\ stop_kind' = "setattr"
    /\ mon_pc' = "returned"
    /\ UNCHANGED << monitoring, utilizations, thread_state, stop_state >>

\* the thread evaluates "while monitoring"
MonitorLoopTest ==
    /\ thread_state = "testing"
    /\ UNCHANGED notMon
    /\ thread_state' = IF monitoring THEN "sampling" ELSE "left"
    /\ UNCHANGED << mon_pc, stop_kind, monitoring, utilizations, stop_state >>

\* the body of the loop: read the utilization, append it, sleep
MonitorSample ==
    /\ thread_state = "sampling"
    /\ UNCHANGED notMon
    /\ \/ \E util \in GpuUtils :
             /\ utilizations' = Record(utilizations, util)
             /\ thread_state' = "testing"
       \/ \* nvmlDeviceGetUtilizationRates (or util.gpu) raises: break
          /\ thread_state' = "left"
          /\ UNCHANGED utilizations
       \/ \* time.sleep raises after the append: break
          \E util \in GpuUtils :
             /\ utilizations' = Record(utilizations, util)
             /\ thread_state' = "left"
    /\ UNCHANGED << mon_pc, stop_kind, monitoring, stop_state >>

\* the caller invokes the returned stop callable
InvokeStop ==
    /\ mon_pc = "returned"
    /\ stop_state = "not_invoked"
    /\ UNCHANGED notMon
    /\ IF stop_kind = "setattr"
          THEN LET r == SetattrOnBool(monitoring)
               IN  /\ monitoring' = r.obj
                   /\ stop_state' = IF r.raised THEN "raised" ELSE "returned"
          ELSE /\ stop_state' = "returned"
               /\ UNCHANGED monitoring
    /\ UNCHANGED << mon_pc, stop_kind, utilizations, thread_state >>

MonNext ==
    \/ MonitorGpuUtilization
    \/ MonitorReturn
    \/ MonitorLoopTest
    \/ MonitorSample
    \/ InvokeStop

(***************************************************************************)
(* comprehensive_system_test.py : test_thermodynamic_compliance            *)
(***************************************************************************)
\* the names of test_cases, in list order
test_cases == << "Entropy Increase", "Entropy Decrease (Violation)", "Complex Violation" >>

\* what GeoidState.calculate_entropy() can return
Entropies == 0..MaxEntropy

\* a status rule that demands a strict increase
StatusOfCaseStrict(before_entropy, initial_after_entropy, final_after_entropy) ==
    IF initial_after_entropy > before_entropy THEN "No Correction Needed"
    ELSE IF final_after_entropy > before_entropy THEN "Corrected"
    ELSE "Correction Failed"

\* lines 300-306: the if/elif/else that determines the status
StatusOfCase(before_entropy, initial_after_entropy, final_after_entropy) ==
    IF initial_after_entropy >= before_entropy THEN "No Correction Needed"
    ELSE IF final_after_entropy >= before_entropy THEN "Corrected"
    ELSE "Correction Failed"

\* sum(1 for r in results if r['status'] == 'Corrected')
CountCorrected(results) ==
    Cardinality({ k \in 1..Len(results) : results[k].status = "Corrected" })

\* sum(1 for r in results if r['initial_after_entropy'] < r['before_entropy'])
CountViolations(results) ==
    Cardinality({ k \in 1..Len(results) :
                    results[k].initial_after_entropy < results[k].before_entropy })

\* corrected / total * 100, in whole percent (the fraction is dropped, which
\* changes no comparison with a whole number)
Percent(corrected, total) == (corrected * 100) \div total

ThInit ==
    /\ th_pc = "loop"
    /\ th_results = << >>
    /\ th_stored = FALSE
    /\ corrected_violations = 0
    /\ total_violations = 0
    /\ compliance_rate = << >>
    /\ th_verdict = "none"

\* one iteration of "for case in test_cases"; validate_transformation may
\* change after_geoid, or raise (the method has no try block); after the
\* last case the list is stored in self.test_results
ThermoCase ==
    /\ th_pc = "loop"
    /\ UNCHANGED notTh
    /\ Len(th_results) < Len(test_cases)
    /\ \/ \E before_entropy \in Entropies, initial_after_entropy \in Entropies,
             final_after_entropy \in Entropies, is_valid \in BOOLEAN :
             /\ th_results' = Append(th_results,
                   [ name |-> test_cases[Len(th_results) + 1],
                     before_entropy |-> before_entropy,
                     initial_after_entropy |-> initial_after_entropy,
                     final_after_entropy |-> final_after_entropy,
                     status |-> StatusOfCase(before_entropy, initial_after_entropy,
                                             final_after_entropy),
                     is_valid |-> is_valid ])
             /\ IF Len(th_results') = Len(test_cases)
                   THEN /\ th_stored' = TRUE
                        /\ th_pc' = "statistics"
                   ELSE UNCHANGED << th_stored, th_pc >>
       \/ /\ th_pc' = "raised"
          /\ UNCHANGED << th_results, th_stored >>
    /\ UNCHANGED << corrected_violations, total_violations, compliance_rate, th_verdict >>

\* lines 317-339: the compliance statistics
ThermoStatistics ==
    /\ th_pc = "statistics"
    /\ UNCHANGED notTh
    /\ corrected_violations' = CountCorrected(th_results)
    /\ total_violations' = CountViolations(th_results)
    /\ IF total_violations' > 0
          THEN /\ compliance_rate' = << Percent(corrected_violations', total_violations') >>
               /\ th_verdict' = IF compliance_rate'[1] >= 80
                                   THEN "working well"
                                   ELSE "may need improvement"
          ELSE /\ compliance_rate' = << >>
               /\ th_verdict' = "No thermodynamic violations detected"
    /\ th_pc' = "done"
    /\ UNCHANGED << th_results, th_stored >>

ThNext ==
    \/ ThermoCase
    \/ ThermoStatistics

(***************************************************************************)
(* analyze_database_content.py : generate_insights                         *)
(***************************************************************************)
\* the vault_id values found in the scars table
VaultIds == { "vault_a", "vault_b", "vault_c" }

\* analyze_sqlite_content: vault_distribution is a Counter incremented once
\* per SCAR, so every vault id it holds has a count of at least 1
VaultDistributions ==
    UNION { [ids -> 1..MaxVaultCount] : ids \in SUBSET VaultIds }

\* sum(vault_dist.values())
RECURSIVE SumValues(_)
SumValues(d) ==
    IF DOMAIN d = {} THEN 0
    ELSE LET k == CHOOSE x \in DOMAIN d : TRUE
         IN  d[k] + SumValues([ x \in DOMAIN d \ { k } |-> d[x] ])

\* max(a, b)
Max(a, b) == IF a > b THEN a ELSE b

\* min(vault_a, vault_b) / max(vault_a, vault_b) if max(vault_a, vault_b) > 0
\* else 0, as a fraction num / den with den > 0
BalanceRatio(vault_a, vault_b) ==
    IF Max(vault_a, vault_b) > 0
       THEN [ num |-> Min(vault_a, vault_b), den |-> Max(vault_a, vault_b) ]
       ELSE [ num |-> 0, den |-> 1 ]

\* a threshold test that lets 0.8 itself pass
AtLeastPoint8(ratio) == 5 * ratio.num >= 4 * ratio.den

\* balance_ratio > 0.8
AbovePoint8(ratio) == 5 * ratio.num > 4 * ratio.den

InsStart ==
    /\ ins_pc = "start"
    /\ balance_ratio = << >>
    /\ balance_report = "none"

InsInit ==
    /\ vault_dist \in VaultDistributions
    /\ InsStart

\* the function is not called
InsIdle ==
    /\ vault_dist = << >>
    /\ InsStart

\* generate_insights, lines 341-357: the vault balance insight (the log lines
\* divide by total_scars); the rest of the function logs other patterns
VaultBalanceInsight ==
    /\ ins_pc = "start"
    /\ UNCHANGED notIns
    /\ IF DOMAIN vault_dist # {}
          THEN LET total == SumValues(vault_dist)
                   vault_a == Get(vault_dist, "vault_a", 0)
                   vault_b == Get(vault_dist, "vault_b", 0)
               IN  /\ balance_ratio' = << BalanceRatio(vault_a, vault_b) >>
                   /\ IF total = 0
                         THEN /\ ins_pc' = "raised"
                              /\ UNCHANGED balance_report
                         ELSE /\ ins_pc' = "done"
                              /\ balance_report' =
                                    IF AbovePoint8(balance_ratio'[1])
                                       THEN "Vaults are well-balanced"
                                       ELSE "Vault imbalance detected"
          ELSE /\ ins_pc' = "done"
               /\ UNCHANGED << balance_ratio, balance_report >>
    /\ UNCHANGED vault_dist

InsNext ==
    \/ VaultBalanceInsight

(***************************************************************************)
(* test_migration_simple.py : test_basic_functionality                     *)
(***************************************************************************)
\* the three test_texts, in list order (by their first word)
test_texts == << "This", "Another", "Final" >>

\* what encode_text can return: a list of numbers of some length, a list
\* with a value that is not a number, or something that is not a list
Embeddings ==
    [ kind : { "numbers", "mixed" }, len : 0..MaxDim ] \cup { [ kind |-> "other", len |-> 0 ] }

\* the three assert statements of lines 46-48, in order: the first that fails
FailedAssert(embedding, dim) ==
    IF embedding.kind = "other" THEN "assert isinstance list"
    ELSE IF embedding.len # dim THEN "assert len"
    ELSE IF embedding.kind = "mixed" THEN "assert numeric"
    ELSE "none"

\* except Exception: log, print the traceback, return False
EmbExcept(what) ==
    /\ emb_error' = what
    /\ emb_result' = "False"
    /\ emb_pc' = "returned"

EmbStart ==
    /\ emb_pc = "imports"
    /\ embedding_dim = 0
    /\ emb_i = 0
    /\ lightweight_set = FALSE
    /\ lightweight_len = << >>
    /\ emb_error = "none"
    /\ emb_result = "none"

EmbInit ==
    /\ os_environ \in { "unset", "0", "1" }
    /\ EmbStart

\* the function is not called
EmbIdle ==
    /\ os_environ = "unset"
    /\ EmbStart

\* lines 25-27: the imports
EmbImports ==
    /\ emb_pc = "imports"
    /\ UNCHANGED notEmb
    /\ \/ \E dim \in 1..MaxDim :
             /\ embedding_dim' = dim
             /\ emb_pc' = "initialize"
             /\ UNCHANGED << emb_error, emb_result >>
       \/ /\ EmbExcept("import")
          /\ UNCHANGED embedding_dim
    /\ UNCHANGED << os_environ, emb_i, lightweight_set, lightweight_len >>

\* lines 31-32: model = initialize_embedding_model()
EmbInitializeModel ==
    /\ emb_pc = "initialize"
    /\ UNCHANGED notEmb
    /\ \/ /\ emb_pc' = "encode"
          /\ UNCHANGED << emb_error, emb_result >>
       \/ EmbExcept("initialize_embedding_model")
    /\ UNCHANGED << os_environ, embedding_dim, emb_i, lightweight_set, lightweight_len >>

\* lines 42-53: one iteration of the loop over test_texts
EmbEncodeText ==
    /\ emb_pc = "encode"
    /\ UNCHANGED notEmb
    /\ emb_i < Len(test_texts)
    /\ \/ \E embedding \in Embeddings :
             IF FailedAssert(embedding, embedding_dim) = "none"
                THEN /\ emb_i' = emb_i + 1
                     /\ emb_pc' = IF emb_i + 1 = Len(test_texts) THEN "lightweight" ELSE "encode"
                     /\ UNCHANGED << emb_error, emb_result >>
                ELSE /\ EmbExcept(FailedAssert(embedding, embedding_dim))
                     /\ UNCHANGED emb_i
       \/ /\ EmbExcept("encode_text")
          /\ UNCHANGED emb_i
    /\ UNCHANGED << os_environ, embedding_dim, lightweight_set, lightweight_len >>

\* lines 56-78: set LIGHTWEIGHT_EMBEDDING to '1', reload the module, encode
\* one text, log its length, set the variable to '0', return True; the
\* reload, the encoding and len() can each raise
EmbLightweightMode ==
    /\ emb_pc = "lightweight"
    /\ UNCHANGED notEmb
    /\ lightweight_set' = TRUE
    /\ \/ \* the reload raises
          /\ os_environ' = "1"
          /\ EmbExcept("importlib.reload")
          /\ UNCHANGED lightweight_len
       \/ \* encode_text raises
          /\ os_environ' = "1"
          /\ EmbExcept("lightweight encode_text")
          /\ UNCHANGED lightweight_len
       \/ \* the result has no len()
          /\ os_environ' = "1"
          /\ EmbExcept("len(lightweight_embedding)")
          /\ UNCHANGED lightweight_len
       \/ \E n \in 0..MaxDim :
             /\ lightweight_len' = << n >>
             /\ os_environ' = "0"
             /\ emb_result' = "True"
             /\ emb_pc' = "returned"
             /\ UNCHANGED emb_error
    /\ UNCHANGED << embedding_dim, emb_i >>

EmbNext ==
    \/ EmbImports
    \/ EmbInitializeModel
    \/ EmbEncodeText
    \/ EmbLightweightMode

\* python migrate_sqlite_to_postgres.py
InitMigrate == MigInit /\ LifeInit /\ HarIdle /\ PopIdle /\ TrIdle /\ MonInit /\ ThInit /\ InsIdle /\ EmbIdle

SpecMigrate == InitMigrate /\ [][MigNext]_vars

\* python full_main.py
InitLifespan == MigIdle /\ LifeInit /\ HarIdle /\ PopIdle /\ TrIdle /\ MonInit /\ ThInit /\ InsIdle /\ EmbIdle

SpecLifespan == InitLifespan /\ [][LifeNext]_vars

\* one of the test harness scripts is run
InitHarness == MigIdle /\ LifeInit /\ HarInit /\ PopIdle /\ TrIdle /\ MonInit /\ ThInit /\ InsIdle /\ EmbIdle

SpecHarness == InitHarness /\ [][HarNext]_vars

\* python populate_test_data.py
InitPopulate == MigIdle /\ LifeInit /\ HarIdle /\ PopInit /\ TrIdle /\ MonInit /\ ThInit /\ InsIdle /\ EmbIdle

SpecPopulate == InitPopulate /\ [][PopNext]_vars

\* python start_kimera_trading_simulation.py
InitTrading == MigIdle /\ LifeInit /\ HarIdle /\ PopIdle /\ TrInit /\ MonInit /\ ThInit /\ InsIdle /\ EmbIdle

SpecTrading == InitTrading /\ [][TrNext]_vars

\* ComprehensiveSystemTest().test_thermodynamic_compliance()
InitThermo == MigIdle /\ LifeInit /\ HarIdle /\ PopIdle /\ TrIdle /\ MonInit /\ ThInit /\ InsIdle /\ EmbIdle

SpecThermo == InitThermo /\ [][ThNext]_vars

\* generate_insights(sqlite_analysis, neo4j_analysis)
InitInsights ==
    /\ MigIdle /\ LifeInit /\ HarIdle /\ PopIdle /\ TrIdle /\ MonInit /\ ThInit
    /\ InsInit /\ EmbIdle

SpecInsights == InitInsights /\ [][InsNext]_vars

\* python test_migration_simple.py
InitEmbedding ==
    /\ MigIdle /\ LifeInit /\ HarIdle /\ PopIdle /\ TrIdle /\ MonInit /\ ThInit
    /\ InsIdle /\ EmbInit

SpecEmbedding == InitEmbedding /\ [][EmbNext]_vars

\* a caller of monitor_gpu_utilization; the thread is scheduled again and
\* again, and the caller does invoke the stop callable
InitMonitor == MigIdle /\ LifeInit /\ HarIdle /\ PopIdle /\ TrIdle /\ MonInit /\ ThInit /\ InsIdle /\ EmbIdle

SpecMonitor ==
    /\ InitMonitor
    /\ [][MonNext]_vars
    /\ WF_vars(MonitorReturn)
    /\ WF_vars(MonitorLoopTest)
    /\ WF_vars(MonitorSample)
    /\ WF_vars(InvokeStop)

(***************************************************************************)
(* Properties of migrate_data                                              *)
(***************************************************************************)
Settled == { "empty", "committed", "rolled_back" }

LoopDone == ti > Len(tables)

RowsInTarget(t) == { row \in target : row.table = t }

RowsInSession(t) == { row \in pending : row.table = t }

AllRows(t) == { [ table |-> t, id |-> k ] : k \in 1..sqlite_rows[t] }

\* migrate_data is over
MigrateDataOver == mig_pc \in { "returned", "indexed", "uncaught", "exit" }

\* C1: a failure while migrating one table is isolated to that table: the
\* error is logged under the table's name, the session is rolled back so that
\* no row of the failed table is in the target or left in the session, every
\* table committed before keeps all its rows in the target, and every later
\* table is still attempted (the loop goes on, and when migrate_data is over
\* after the tables were entered every listed table is settled).
C1_FailureIsolated ==
    \A t \in TableNames :
        t \in error_log =>
            /\ table_status[t] = "rolled_back"
            /\ RowsInTarget(t) = {}
            /\ RowsInSession(t) = {}
            /\ \A u \in TableNames :
                   table_status[u] = "committed" => RowsInTarget(u) = AllRows(u)
            /\ ti \in 1..(Len(tables) + 1)
            /\ (LoopDone \/ MigrateDataOver) =>
                   \A u \in TableNames : table_status[u] \in Settled

\* C1 witness: the loop has ended; a table with records failed after an
\* earlier table was committed, and a later table was still attempted.
C1_Witness ==
    /\ LoopDone
    /\ \E a, b, c \in 1..Len(tables) :
          /\ a < b /\ b < c
          /\ table_status[tables[a]] = "committed"
          /\ table_status[tables[b]] = "rolled_back"
          /\ sqlite_rows[tables[b]] > 0
          /\ table_status[tables[c]] \in Settled

\* C2: tables are migrated in the listed order (Geoids first, then SCARs,
\* ..., Consciousness Indicators last): a table is attempted only when every
\* earlier table is settled (committed, rolled back, or skipped as empty);
\* the rows of a table reach the target in exactly one commit, issued while
\* that table is the current one, and all of them together; a table with zero
\* source records gets no add and no commit.
C2_OrderedSingleCommit ==
    /\ \A a, b \in 1..Len(tables) :
          (a < b /\ table_status[tables[b]] # "none")
              => table_status[tables[a]] \in Settled
    /\ \A t \in TableNames :
          table_status[t] # "none" => table_status["Geoids"] # "none"
    /\ table_status["SCARs"] # "none" => table_status["Geoids"] \in Settled
    /\ table_status["Consciousness Indicators"] # "none" =>
          \A t \in TableNames \ { "Consciousness Indicators" } :
              table_status[t] \in Settled
    /\ \A t \in TableNames :
          /\ commits[t] <= 1
          /\ table_status[t] = "committed" => commits[t] = 1
          /\ RowsInTarget(t) \in { {}, AllRows(t) }
          /\ RowsInTarget(t) # {} => table_status[t] = "committed"
          /\ sqlite_rows[t] = 0 =>
                 /\ commits[t] = 0
                 /\ RowsInTarget(t) = {}
                 /\ RowsInSession(t) = {}
    /\ \A row \in DOMAIN committed_by : committed_by[row] = row.table
    /\ DOMAIN committed_by = target

\* C2 witness: migrate_data returned after the last table; two tables were
\* committed, one commit each, and an empty table in between was skipped.
C2_Witness ==
    /\ mig_result = "True"
    /\ \E a, b, c \in 1..Len(tables) :
          /\ a < b /\ b < c
          /\ table_status[tables[a]] = "committed" /\ commits[tables[a]] = 1
          /\ table_status[tables[b]] = "empty"
          /\ table_status[tables[c]] = "committed" /\ commits[tables[c]] = 1

\* the __main__ block has logged the line
Logged(line) == \E k \in 1..Len(main_log) : main_log[k] = line

\* C3: whenever migrate_data returns True (and __main__ logs "Migration
\* successful!"), every record of each of the 15 listed source tables has
\* been committed to the target.
C3_TrueMeansAllMigrated ==
    (mig_result = "True" \/ Logged("Migration successful!")) =>
        \A t \in TableNames : RowsInTarget(t) = AllRows(t)

\* the parts DATABASE_URL is made of
UrlParts == { postgres_url[k] : k \in 1..Len(postgres_url) }

\* C17: when DATABASE_URL has no "postgresql" in it, migrate_data, once
\* called, returns False straight from the URL check: no engine, connection
\* or session is ever created, nothing is added to a session, committed or
\* stored in the target database, and True is never returned.
C17_NonPostgresUrlRejectedFirst ==
    "postgresql" \notin UrlParts =>
        /\ mig_pc \in { "prompt", "type_error", "check_url", "returned", "exit" }
        /\ mig_pc = "returned" => mig_result = "False"
        /\ mig_result # "True"
        /\ resources = {}
        /\ target = {}
        /\ pending = {}
        /\ committed_by = << >>
        /\ total_migrated = 0
        /\ faults = 0

\* migrate_data was called with a SQLite URL as DATABASE_URL while the source
\* holds records, and has returned False
C17_Witness ==
    /\ "postgresql" \notin UrlParts
    /\ mig_pc = "returned"
    /\ mig_result = "False"
    /\ \E t \in TableNames : sqlite_rows[t] > 0

(***************************************************************************)
(* Properties of full_lifespan and the endpoints                           *)
(***************************************************************************)
\* the keys under which steps 1 to 12 register their component
\* (step 11 starts the background jobs and registers nothing)
ComponentKeys == StepNames \ { "background_jobs" }

StatusIs(v) == "status" \in DOMAIN kimera_system /\ kimera_system["status"] = v

\* C4: an exception raised by any single initialization step (steps 1 to 12)
\* is logged and only that step is skipped: when startup reaches the yield,
\* every step was attempted, every step that raised has its warning logged,
\* and status is 'fully_operational' rather than 'error'.
C4_StepFailureIsolated ==
    life_pc = "serving" =>
        /\ attempted = StepNames
        /\ (attempted \ initialized) \subseteq warnings
        /\ StatusIs("fully_operational")
        /\ ~ critical_log

\* C5: whenever startup ends with status 'fully_operational' and
\* initialization_level 'complete' (and /system/status reports
\* all_components_enabled), every step 1 to 12 completed without raising and
\* every component is registered in kimera_system.
C5_OperationalMeansAllInitialized ==
    ( /\ life_pc = "serving"
      /\ StatusIs("fully_operational")
      /\ Get(kimera_system, "initialization_level", "unknown") = "complete"
      /\ system_status.all_components_enabled )
    => /\ initialized = StepNames
       /\ ComponentKeys \subseteq DOMAIN kimera_system

\* C6: in every reachable state health_check reports 'healthy' exactly when
\* kimera_system's status is 'fully_operational' and 'degraded' otherwise;
\* in particular it reports 'degraded' before startup has set a status (the
\* reported system_status is then 'unknown'), after a critical startup error
\* and after shutdown.
C6_HealthyIffOperational ==
    /\ health_check.status \in { "healthy", "degraded" }
    /\ health_check.status = "healthy" <=> StatusIs("fully_operational")
    /\ "status" \notin DOMAIN kimera_system =>
          /\ health_check.status = "degraded"
          /\ health_check.system_status = "unknown"
    /\ life_pc \notin { "serving", "exited" } => "status" \notin DOMAIN kimera_system
    /\ critical_log => health_check.status = "degraded"
    /\ StatusIs("shutdown") => health_check.status = "degraded"

\* C6 witness: startup completed and the application is serving; the health
\* check answers 'healthy' with system_status 'fully_operational'.
C6_Witness ==
    /\ life_pc = "serving"
    /\ health_check.status = "healthy"
    /\ health_check.system_status = "fully_operational"

\* kimera_system.get('status'), "unset" while the key is absent
StatusNow == Get(kimera_system, "status", "unset")

\* C12: in one run of full_lifespan no status is set before the yield is
\* reached; at the yield the status is 'fully_operational' or 'error', each
\* set by a single assignment from the unset state; after the lifespan has
\* exited the status is 'shutdown', and the only later change of a set status
\* is to 'shutdown', which is never left again; while the status is
\* 'fully_operational' kimera_system has no 'error' entry.
C12_StatusLifecycle ==
    /\ [] ( /\ life_pc \notin { "serving", "exited" } => StatusNow = "unset"
            /\ life_pc = "serving" => StatusNow \in { "fully_operational", "error" }
            /\ life_pc = "exited" => StatusNow = "shutdown"
            /\ StatusNow = "fully_operational" => "error" \notin DOMAIN kimera_system
            /\ StatusNow = "error" => "error" \in DOMAIN kimera_system )
    /\ [][ /\ StatusNow = "shutdown" => StatusNow' = "shutdown"
           /\ StatusNow' # StatusNow =>
                 \/ StatusNow = "unset" /\ StatusNow' \in { "fully_operational", "error" }
                 \/ StatusNow \in { "fully_operational", "error" } /\ StatusNow' = "shutdown"
         ]_vars

\* a run whose startup ended in the outer handler and whose lifespan has
\* exited: the status is 'shutdown' and the 'error' entry is still there
C12_Witness ==
    /\ life_pc = "exited"
    /\ critical_log
    /\ StatusNow = "shutdown"
    /\ "error" \in DOMAIN kimera_system

\* the step behind each capability flag of the root endpoint
CapabilityStep ==
    [ universal_output_comprehension |-> "universal_comprehension",
      therapeutic_intervention |-> "therapeutic_intervention",
      rigorous_universal_translator |-> "universal_translator",
      quantum_cognitive_processing |-> "quantum_cognitive",
      gyroscopic_security |-> "gyroscopic_security",
      thermodynamic_engine |-> "thermodynamic_engine",
      complete_background_processing |-> "metrics" ]

\* C13: once startup has reached the yield, each capability flag returned by
\* the root endpoint is true exactly when the initialization step of its
\* component completed without an exception.
C13_FlagIffStepCompleted ==
    life_pc = "serving" =>
        \A flag \in DOMAIN CapabilityStep :
            root.capabilities[flag] <=> CapabilityStep[flag] \in initialized

\* the components whose step completed and that are registered
LoadedComponents == { k \in ComponentKeys \cap DOMAIN kimera_system : k \in initialized }

\* C14: after a successful startup the components_loaded value stored in
\* kimera_system, and returned by the root and health endpoints, is the
\* number of components that were initialized and registered, the entries
\* status, initialization_level and cognitive_fidelity not being counted.
C14_ComponentsLoadedCountsComponents ==
    (life_pc = "serving" /\ StatusIs("fully_operational")) =>
        /\ kimera_system["components_loaded"] = Cardinality(LoadedComponents)
        /\ root.components_loaded = Cardinality(LoadedComponents)
        /\ health_check.components_loaded = Cardinality(LoadedComponents)

\* the cleanup's try block has run: stop_background_jobs() was called, or
\* its import failed and the failure was logged
StopAttempted == stop_calls = 1 \/ shutdown_log # "none"

\* C15: the cleanup after the yield can always run, whatever became of the
\* background jobs in step 11; whenever it has run, the stop was attempted
\* (stop_background_jobs() called once, or its import failed) and the status
\* is 'shutdown', also when the import or the call raised; nothing else sets
\* the status to 'shutdown' or attempts the stop.
C15_ShutdownAlwaysAttemptsStop ==
    /\ life_pc = "serving" => ENABLED Shutdown
    /\ life_pc # "exited" => stop_calls = 0 /\ shutdown_log = "none"
    /\ stop_calls <= 1
    /\ StopAttempted <=> StatusIs("shutdown")
    /\ shutdown_log = "Error stopping background jobs" => StatusIs("shutdown")
    /\ shutdown_log = "Background jobs module not available for shutdown"
          => StatusIs("shutdown")

\* the background jobs were never started (step 11 raised), the cleanup called
\* stop_background_jobs(), the call raised, and the status is 'shutdown'
C15_Witness ==
    /\ life_pc = "exited"
    /\ "background_jobs" \in warnings
    /\ background_jobs = "not_started"
    /\ stop_calls = 1
    /\ shutdown_log = "Error stopping background jobs"
    /\ StatusIs("shutdown")

(***************************************************************************)
(* Properties of the test harness scripts                                  *)
(***************************************************************************)
IsPrefix(p, q) ==
    /\ Len(p) <= Len(q)
    /\ \A k \in 1..Len(p) : p[k] = q[k]

\* the order main is said to run in: the test object, the five categories,
\* the report
C7_Order == << "ComprehensiveSystemTest", "test_entropy_monitoring_enhancements",
               "test_adaptive_threshold_system",
               "test_enhanced_predictability_patterns",
               "test_thermodynamic_compliance", "test_system_integration",
               "generate_test_report" >>

\* C7: comprehensive_system_test.main returns 0 if and only if all five test
\* categories and the report generation complete without raising; the calls
\* run in the fixed order entropy monitoring, adaptive threshold,
\* predictability, thermodynamic compliance, system integration, report; the
\* first exception aborts the remaining categories, skips the report and
\* makes main return 1.
C7_ExitZeroIffAllCompleted ==
    /\ cst_exit_code \in { NoCode, << 0 >>, << 1 >> }
    /\ IsPrefix(cst_completed, C7_Order)
    /\ cst_exit_code # NoCode =>
          (cst_exit_code = << 0 >> <=> cst_completed = C7_Order)
    /\ cst_exit_code = << 0 >> => cst_report_file
    /\ (cst_exit_code = << 1 >> /\ Len(cst_completed) < Len(C7_Order) - 1) =>
          ~ cst_report_file
    /\ cst_report_file =>
          \A k \in 1..(Len(C7_Order) - 1) : k <= Len(cst_completed)

\* C7 witness: the third test category raised: main returned 1 after two
\* completed categories, with no report.
C7_Witness ==
    /\ cst_exit_code = << 1 >>
    /\ Len(cst_completed) = 3
    /\ ~ cst_report_file

\* C8: generate_integration_report runs each of the nine listed tests exactly
\* once, in list order, and records exactly one result per test, whose status
\* is 'passed' (the test returned truthy), 'failed' (falsy) or 'error'
\* (raised); no outcome of a test keeps a later test from running, so after
\* the loop passed count <= total count = 9.
C8_NineTestsOneResultEach ==
    /\ IsPrefix(sm_calls, tests)
    /\ Len(sm_outcomes) = Len(sm_calls)
    /\ DOMAIN sm_test_results = { sm_calls[k] : k \in 1..Len(sm_calls) }
    /\ Cardinality(DOMAIN sm_test_results) = Len(sm_calls)
    /\ \A k \in 1..Len(sm_calls) :
          /\ sm_outcomes[k] = "truthy" => sm_test_results[sm_calls[k]] = "passed"
          /\ sm_outcomes[k] = "falsy" => sm_test_results[sm_calls[k]] = "failed"
          /\ sm_outcomes[k] = "raise" => sm_test_results[sm_calls[k]] = "error"
    /\ sm_pc \in { "returned", "crashed" } =>
          /\ Len(sm_calls) = 9
          /\ TotalTests = 9
          /\ PassedTests <= TotalTests
          /\ PassedTests = Cardinality({ k \in 1..9 : sm_outcomes[k] = "truthy" })

\* C8 witness: the report was returned after a run in which one test raised,
\* a later one returned a falsy value and a still later one passed.
C8_Witness ==
    /\ sm_pc = "returned"
    /\ \E a, b, c \in 1..Len(sm_outcomes) :
          /\ a < b /\ b < c
          /\ sm_outcomes[a] = "raise"
          /\ sm_outcomes[b] = "falsy"
          /\ sm_outcomes[c] = "truthy"

AllFourResults == { "field_creation", "neighbor_finding", "batch_operations",
                    "performance_comparison" }

\* C9: the GPU stress test main runs the four stress tests in the order
\* field_creation, neighbor_finding, batch_operations, performance_comparison
\* and writes gpu_stress_test_results.json only if all four completed; if any
\* statement of the try block raises, main returns with the later tests not
\* run and no results file written.
C9_ResultsFileOnlyAfterAllFour ==
    /\ "neighbor_finding" \in gpu_results => "field_creation" \in gpu_results
    /\ "batch_operations" \in gpu_results => "neighbor_finding" \in gpu_results
    /\ "performance_comparison" \in gpu_results => "batch_operations" \in gpu_results
    /\ gpu_file_written => gpu_results = AllFourResults
    /\ gpu_outcome = "completed" => gpu_file_written
    /\ gpu_outcome = "returned_early" =>
          /\ ~ gpu_file_written
          /\ gpu_results # AllFourResults
          /\ gpu_pc = "returned"
    /\ gpu_pc \in { "summary", "done" } => gpu_outcome # "returned_early"

\* C9 witness: the third stress test raised: main returned with two results
\* and without a results file.
C9_Witness ==
    /\ gpu_outcome = "returned_early"
    /\ gpu_results = { "field_creation", "neighbor_finding" }
    /\ ~ gpu_file_written

\* the functions main calls, in the order it calls them
PhaseOrder == << "create_test_geoids", "create_echoform_geoids",
                 "process_contradictions", "run_system_cycles",
                 "run_proactive_scan", "check_system_status" >>

\* the same order without the contradiction phase
PhaseOrderNoGeoids == << "create_test_geoids", "create_echoform_geoids",
                         "run_system_cycles", "run_proactive_scan",
                         "check_system_status" >>

PhaseRank(f) == CHOOSE k \in 1..Len(PhaseOrder) : PhaseOrder[k] = f

PostsBy(f) == Cardinality({ k \in 1..Len(posts) : posts[k] = f })

PopRunning == pop_pc \notin { "probe", "no_api", "done" }

\* C10: populate_test_data.main sends no POST when the reachability probe
\* raises; otherwise the functions it calls are, in this order, semantic geoid
\* creation, echoform geoid creation, contradiction processing (called exactly
\* when geoid_ids is not empty), the system cycles, the proactive scan and the
\* status check; every POST is sent by the phase running at the time, so the
\* POSTs follow the same order; whatever the requests met, a started run can
\* always take its next step, and a finished run has called every phase and
\* sent ten plus five geoid POSTs, min(10, len(geoid_ids)) contradiction
\* POSTs, three cycle POSTs and one scan POST.
C10_ProbeGatesOrderedPhases ==
    /\ probe_outcome = "raise" => posts = << >> /\ phases = << >> /\ gets = << >>
    /\ IsPrefix(phases, PhaseOrder) \/ IsPrefix(phases, PhaseOrderNoGeoids)
    /\ Len(phases) >= 3 => (phases[3] = "process_contradictions" <=> geoid_ids # << >>)
    /\ \A k \in 1..Len(posts) :
          /\ \E j \in 1..Len(phases) : phases[j] = posts[k]
          /\ k > 1 => PhaseRank(posts[k - 1]) <= PhaseRank(posts[k])
    /\ PopRunning => ENABLED PopNext
    /\ pop_pc = "done" =>
          /\ phases \in { PhaseOrder, PhaseOrderNoGeoids }
          /\ PostsBy("create_test_geoids") = Len(test_concepts)
          /\ PostsBy("create_echoform_geoids") = Len(echoforms)
          /\ PostsBy("process_contradictions") = Min(10, Len(geoid_ids))
          /\ PostsBy("run_system_cycles") = 3
          /\ PostsBy("run_proactive_scan") = 1
          /\ Len(gets) >= 1

\* a finished run against an API that is up, in which one geoid request of
\* the first phase failed and every later phase still ran
C10_Witness ==
    /\ pop_pc = "done"
    /\ api_mode = "up"
    /\ Len(semantic_geoids) < Len(test_concepts)
    /\ phases = PhaseOrder
    /\ Len(gets) = Len(status_paths)

(***************************************************************************)
(* Properties of the trading simulation startup script                     *)
(***************************************************************************)
\* the positions of the characters of a line that are not blanks
Inked(line) == { k \in 1..Len(line) : line[k] # " " }

\* the line without the blanks before its first and after its last other
\* character
Trimmed(line) ==
    IF Inked(line) = {} THEN << >>
    ELSE LET first == CHOOSE k \in Inked(line) : \A j \in Inked(line) : k <= j
             last == CHOOSE k \in Inked(line) : \A j \in Inked(line) : j <= k
         IN SubSeq(line, first, last)

\* C11: once main has read the menu choice, the simulation subprocesses it
\* has launched are decided by the choice without its surrounding blanks:
\* none for "4"; exactly one, given that same option as input, for "1", "2"
\* and "3"; exactly one, given option "3", for anything else.  Before the
\* choice is read no simulation is launched.
C11_ChoiceDecidesLaunch ==
    /\ tr_pc # "done" => launched = << >>
    /\ tr_pc = "done" =>
          LET choice == Trimmed(raw_choice)
          IN /\ choice = << "4" >> => launched = << >>
             /\ choice \in { << "1" >>, << "2" >>, << "3" >> } => launched = << choice >>
             /\ choice \notin { << "1" >>, << "2" >>, << "3" >>, << "4" >> }
                   => launched = << << "3" >> >>

\* option "2" typed with blanks around it launched the simulation once
\* with input "2"
C11_Witness ==
    /\ tr_pc = "done"
    /\ raw_choice = << " ", "2", " " >>
    /\ launched = << << "2" >> >>

(***************************************************************************)
(* Properties of monitor_gpu_utilization                                   *)
(***************************************************************************)
\* C16: invoking the stop callable returned by monitor_gpu_utilization does
\* not raise, and once it has been invoked the monitor thread eventually
\* leaves its polling loop (after which it appends nothing to utilizations).
C16_StopEndsMonitoring ==
    /\ [] (stop_state # "raised")
    /\ (stop_state # "not_invoked") ~> (thread_state \in { "none", "left" })
    /\ [][thread_state = "left" => utilizations' = utilizations]_vars

\* the geoid_id values carried by the answers with status 200 among the
\* given outcomes, in request order; the first request has ordinal first
RECURSIVE IdsAnswered200(_, _)
IdsAnswered200(outcomes, first) ==
    IF outcomes = << >> THEN << >>
    ELSE (IF Head(outcomes) = "200" THEN << first >> ELSE << >>)
         \o IdsAnswered200(Tail(outcomes), first + 1)

\* the outcomes of the requests of create_test_geoids
SemanticOutcomes == SubSeq(geoid_outcomes, 1, Min(Len(geoid_outcomes), Len(test_concepts)))

\* the outcomes of the requests of create_echoform_geoids
EchoformOutcomes == SubSeq(geoid_outcomes, Len(test_concepts) + 1, Len(geoid_outcomes))

\* C18: the lists built by create_test_geoids and create_echoform_geoids hold
\* exactly the geoid_id values of the answers with status 200, in request
\* order; any other outcome of a request adds no id and the loop goes on, so
\* that each function, once it has returned, has sent all its requests (ten
\* and five) and its list is never longer than the requests sent; main's
\* geoid_ids is the first list followed by the second.
C18_CreatedIdsAreThe200s ==
    /\ semantic_geoids = IdsAnswered200(SemanticOutcomes, 1)
    /\ echoform_geoids = IdsAnswered200(EchoformOutcomes, Len(test_concepts) + 1)
    /\ Len(semantic_geoids) <= PostsBy("create_test_geoids")
    /\ Len(echoform_geoids) <= PostsBy("create_echoform_geoids")
    /\ PostsBy("create_test_geoids") <= Len(test_concepts)
    /\ PostsBy("create_echoform_geoids") <= Len(echoforms)
    /\ Len(geoid_outcomes) = PostsBy("create_test_geoids") + PostsBy("create_echoform_geoids")
    /\ Len(phases) >= 2 => PostsBy("create_test_geoids") = Len(test_concepts)
    /\ Len(phases) >= 3 =>
          /\ PostsBy("create_echoform_geoids") = Len(echoforms)
          /\ geoid_ids = semantic_geoids \o echoform_geoids

\* both functions have returned; the first request raised, every later one
\* was answered with status 200 and contributed its id
C18_Witness ==
    /\ Len(phases) >= 3
    /\ geoid_outcomes[1] = "raise"
    /\ semantic_geoids = << 2, 3, 4, 5, 6, 7, 8, 9, 10 >>
    /\ echoform_geoids = << 11, 12, 13, 14, 15 >>

(***************************************************************************)
(* Properties of test_thermodynamic_compliance                             *)
(***************************************************************************)
\* C19: every processed test case has one status: 'No Correction Needed'
\* exactly when its initial after-entropy is at least its before-entropy,
\* 'Corrected' exactly when the initial after-entropy is below and the final
\* after-entropy is at least the before-entropy, 'Correction Failed' in the
\* remaining case; once the statistics are computed all three cases have a
\* result, the number of 'Corrected' cases is at most the number of detected
\* violations, and the compliance rate, computed exactly when there is a
\* violation, lies between 0 and 100.
C19_StatusByEntropyOrder ==
    /\ \A k \in 1..Len(th_results) :
          LET r == th_results[k]
              needless == r.initial_after_entropy >= r.before_entropy
              repaired == r.final_after_entropy >= r.before_entropy
          IN  /\ r.name = test_cases[k]
              /\ r.status \in { "No Correction Needed", "Corrected", "Correction Failed" }
              /\ r.status = "No Correction Needed" <=> needless
              /\ r.status = "Corrected" <=> (~ needless /\ repaired)
              /\ r.status = "Correction Failed" <=> (~ needless /\ ~ repaired)
    /\ th_pc = "done" =>
          /\ Len(th_results) = Len(test_cases)
          /\ th_stored
          /\ corrected_violations =
                Cardinality({ k \in 1..Len(th_results) : th_results[k].status = "Corrected" })
          /\ total_violations =
                Cardinality({ k \in 1..Len(th_results) :
                                th_results[k].status # "No Correction Needed" })
          /\ corrected_violations <= total_violations
          /\ compliance_rate # << >> <=> total_violations > 0
          /\ compliance_rate # << >> =>
                compliance_rate[1] >= 0 /\ compliance_rate[1] <= 100

\* the three cases ended with the three different statuses (the first with
\* equal entropies), so one of two violations was corrected: rate 50
C19_Witness ==
    /\ th_pc = "done"
    /\ th_results[1].status = "No Correction Needed"
    /\ th_results[1].initial_after_entropy = th_results[1].before_entropy
    /\ th_results[2].status = "Corrected"
    /\ th_results[3].status = "Correction Failed"
    /\ compliance_rate = << 50 >>

(***************************************************************************)
(* Properties of generate_insights                                         *)
(***************************************************************************)
\* the SCAR count of a vault id, 0 when the distribution does not list it
ScarsIn(id) == IF id \in DOMAIN vault_dist THEN vault_dist[id] ELSE 0

\* the smaller and the larger of the counts of vault_a and vault_b
SmallerVault == IF ScarsIn("vault_a") <= ScarsIn("vault_b")
                   THEN ScarsIn("vault_a") ELSE ScarsIn("vault_b")

LargerVault == IF ScarsIn("vault_a") <= ScarsIn("vault_b")
                  THEN ScarsIn("vault_b") ELSE ScarsIn("vault_a")

\* C20: for every non-empty vault distribution generate_insights finishes
\* the vault balance insight without raising; the balance ratio it computes
\* equals min(vault_a, vault_b) / max(vault_a, vault_b) and lies in [0, 1];
\* it is 0 when neither vault_a nor vault_b holds a SCAR; and the vaults are
\* reported well-balanced exactly when the ratio is greater than 0.8.  For
\* an empty distribution nothing is computed or reported.
C20_BalanceRatioAndReport ==
    /\ ins_pc # "raised"
    /\ ins_pc = "start" => balance_ratio = << >> /\ balance_report = "none"
    /\ (ins_pc = "done" /\ DOMAIN vault_dist = {}) =>
          balance_ratio = << >> /\ balance_report = "none"
    /\ (ins_pc = "done" /\ DOMAIN vault_dist # {}) =>
          /\ balance_ratio # << >>
          /\ LET ratio == balance_ratio[1]
             IN  /\ ratio.den > 0
                 /\ 0 <= ratio.num /\ ratio.num <= ratio.den
                 /\ LargerVault > 0 => ratio.num * LargerVault = SmallerVault * ratio.den
                 /\ LargerVault = 0 => ratio.num = 0
                 /\ balance_report \in { "Vaults are well-balanced", "Vault imbalance detected" }
                 /\ balance_report = "Vaults are well-balanced"
                       <=> (LargerVault > 0 /\ 10 * SmallerVault > 8 * LargerVault)

\* vault_a holds 4 SCARs and vault_b 5: the ratio is exactly 0.8 and an
\* imbalance is reported
C20_Witness ==
    /\ ins_pc = "done"
    /\ ScarsIn("vault_a") = 4
    /\ ScarsIn("vault_b") = 5
    /\ balance_ratio = << [ num |-> 4, den |-> 5 ] >>
    /\ balance_report = "Vault imbalance detected"

(***************************************************************************)
(* Properties of test_basic_functionality                                  *)
(***************************************************************************)
\* C21: whenever test_basic_functionality has returned after setting
\* LIGHTWEIGHT_EMBEDDING to '1' (also when a later step raised and it
\* returned False), the environment variable is '0'.
C21_LightweightModeReset ==
    (emb_pc = "returned" /\ lightweight_set) => os_environ = "0"

(***************************************************************************)
(* Properties of generate_integration_report                               *)
(***************************************************************************)
Recommended(text) ==
    \E k \in 1..Len(sm_recommendations) : sm_recommendations[k].text = text

ReportGenerated == sm_pc \in { "returned", "crashed" }

AllNinePassed ==
    /\ DOMAIN sm_test_results = { tests[k] : k \in 1..Len(tests) }
    /\ \A n \in DOMAIN sm_test_results : sm_test_results[n] = "passed"

\* C22: once the recommendations are generated, 'Statsmodels integration
\* successful - ready for production use' is among them only if all nine
\* tests have status 'passed', and 'Review failed tests: ...' is among them
\* exactly when at least one test has another status.
C22_RecommendationsFollowTestResults ==
    ReportGenerated =>
        /\ Recommended("Statsmodels integration successful - ready for production use")
              => AllNinePassed
        /\ Recommended("Review failed tests") <=> ~ AllNinePassed

====
